---- MODULE Spec2Model ----
(***************************************************************************)
(* hono-sanitizer: the traversal-and-policy engine (src/utils) and the     *)
(* options it is driven by.                                                *)
(*                                                                         *)
(* A JavaScript string is a sequence of tokens: key and path strings are   *)
(* sequences of characters ("a", ".", "0"), value strings are sequences of *)
(* text tokens and markup tokens ("<b>", "</b>").  A JavaScript value is a *)
(* record [t, s, n, kids]; objects and arrays live on a heap of cells and  *)
(* are held by reference, so that identity and mutation are observable.    *)
(***************************************************************************)
EXTENDS Integers, Sequences, FiniteSets, TLC

VARIABLES
    options,    \* the merged options the middleware closes over
    input,      \* the decoded target, as a tree (what JSON.parse built)
    heap,       \* the heap of objects and arrays
    target,     \* the reference handed to sanitizeTarget
    pc,         \* "ready" | "resolved" | "rejected"; the handler's position
    result,     \* the value the promise of sanitizeTarget resolved with
    thrown,     \* the error the promise rejected with
    ctx,        \* the traversal context when the call ended
    log,        \* the observer callbacks invoked, in order
    lookup,     \* the last policy lookup made on its own
    request,    \* the request the middleware handles: headers and targets
    stored,     \* the sanitized results kept on the request, by target
    nextCalls,  \* how often the middleware has called next()
    got,        \* the last getSanitized<T> call of the route handler
    other       \* a second request in flight, parked at an await

vars == <<options, input, heap, target, pc, result, thrown, ctx, log, lookup,
          request, stored, nextCalls, got, other>>

-----------------------------------------------------------------------------
(* Values *)

V(t, s, n, kids) == [t |-> t, s |-> s, n |-> n, kids |-> kids]

Str(s)    == V("str", s, 0, <<>>)
Num(n)    == V("num", <<>>, n, <<>>)
Bool(b)   == V("bool", <<>>, IF b THEN 1 ELSE 0, <<>>)
Null      == V("null", <<>>, 0, <<>>)
Undefined == V("undefined", <<>>, 0, <<>>)
Ref(a)    == V("ref", <<>>, a, <<>>)
Obj(kids) == V("obj", <<>>, 0, kids)
Arr(kids) == V("arr", <<>>, 0, kids)

Ent(k, v) == [k |-> k, v |-> v]

Dot == <<".">>
ProtoKey == <<"__proto__">>

-----------------------------------------------------------------------------
(* Strings *)

RECURSIVE Join(_, _)
Join(parts, sep) ==
    IF parts = <<>> THEN <<>>
    ELSE IF Len(parts) = 1 THEN parts[1]
    ELSE parts[1] \o sep \o Join(Tail(parts), sep)

RECURSIVE SplitFrom(_, _, _, _)
SplitFrom(str, ch, i, cur) ==
    IF i > Len(str) THEN <<cur>>
    ELSE IF str[i] = ch THEN <<cur>> \o SplitFrom(str, ch, i + 1, <<>>)
    ELSE SplitFrom(str, ch, i + 1, Append(cur, str[i]))

Split(str, ch) == SplitFrom(str, ch, 1, <<>>)

StartsWith(str, prefix) ==
    /\ Len(prefix) <= Len(str)
    /\ SubSeq(str, 1, Len(prefix)) = prefix

Digit(d) == <<"0", "1", "2", "3", "4", "5", "6", "7", "8", "9">>[d + 1]

RECURSIVE NumberToString(_)
NumberToString(n) ==
    IF n < 0 THEN <<"-">> \o NumberToString(0 - n)
    ELSE IF n < 10 THEN <<Digit(n)>>
    ELSE NumberToString(n \div 10) \o <<Digit(n % 10)>>

RECURSIVE TrimStart(_)
TrimStart(s) == IF s # <<>> /\ s[1] = " " THEN TrimStart(Tail(s)) ELSE s

RECURSIVE TrimEnd(_)
TrimEnd(s) ==
    IF s # <<>> /\ s[Len(s)] = " " THEN TrimEnd(SubSeq(s, 1, Len(s) - 1)) ELSE s

Trim(s) == TrimEnd(TrimStart(s))

-----------------------------------------------------------------------------
(* The markup-sanitizing capability (DOMPurify.sanitize) *)

TagNames == {"b", "i", "p", "script"}
OpenTag(name)  == "<" \o name \o ">"
CloseTag(name) == "</" \o name \o ">"
IsOpen(tok)  == \E name \in TagNames : tok = OpenTag(name)
IsClose(tok) == \E name \in TagNames : tok = CloseTag(name)
TagOf(tok) == CHOOSE name \in TagNames : tok \in {OpenTag(name), CloseTag(name)}

\* a DOMPurifyConfig, or undefined
NoConfig == [defined |-> FALSE, hasTags |-> FALSE, ALLOWED_TAGS |-> {}]
Config(tags) == [defined |-> TRUE, hasTags |-> TRUE, ALLOWED_TAGS |-> tags]
EmptyConfig == [defined |-> TRUE, hasTags |-> FALSE, ALLOWED_TAGS |-> {}]

\* the tags the capability allows when the configuration names none
DefaultAllowedTags == {"b", "i", "p"}
\* the tags whose content is dropped with them
ForbidContents == {"script"}

RECURSIVE Purify(_, _, _, _)
Purify(s, i, allowed, dropping) ==
    IF i > Len(s) THEN <<>>
    ELSE LET tok == s[i] IN
         IF dropping # ""
         THEN Purify(s, i + 1, allowed,
                     IF tok = CloseTag(dropping) THEN "" ELSE dropping)
         ELSE IF IsOpen(tok) \/ IsClose(tok)
         THEN IF TagOf(tok) \in allowed
              THEN <<tok>> \o Purify(s, i + 1, allowed, "")
              ELSE Purify(s, i + 1, allowed,
                          IF IsOpen(tok) /\ TagOf(tok) \in ForbidContents
                          THEN TagOf(tok) ELSE "")
         ELSE <<tok>> \o Purify(s, i + 1, allowed, "")

DOMPurifySanitize(s, cfg) ==
    Purify(s, 1, IF cfg.hasTags THEN cfg.ALLOWED_TAGS ELSE DefaultAllowedTags, "")

-----------------------------------------------------------------------------
(* Options *)

\* a FieldConfig; NullFieldConfig stands for null (every member undefined)
FieldConfig(mode, config, sanitizer) ==
    [isNull |-> FALSE, mode |-> mode, config |-> config, sanitizer |-> sanitizer]
NullFieldConfig ==
    [isNull |-> TRUE, mode |-> "undefined", config |-> NoConfig,
     sanitizer |-> "undefined"]

DefaultMaxDepth == 10

DEFAULT_OPTIONS ==
    [targets |-> <<"body">>,
     mode |-> "strict", deep |-> TRUE, maxDepth |-> DefaultMaxDepth,
     arrays |-> "each", throwOnError |-> FALSE]

\* sanitizer(options): the defaults, overridden by what the caller gave
MergedOptions(user) ==
    [targets      |-> IF "targets" \in DOMAIN user THEN user.targets
                      ELSE DEFAULT_OPTIONS.targets,
     mode         |-> IF "mode" \in DOMAIN user THEN user.mode
                      ELSE DEFAULT_OPTIONS.mode,
     deep         |-> IF "deep" \in DOMAIN user THEN user.deep
                      ELSE DEFAULT_OPTIONS.deep,
     maxDepth     |-> IF "maxDepth" \in DOMAIN user THEN user.maxDepth
                      ELSE DEFAULT_OPTIONS.maxDepth,
     arrays       |-> IF "arrays" \in DOMAIN user THEN user.arrays
                      ELSE DEFAULT_OPTIONS.arrays,
     throwOnError |-> IF "throwOnError" \in DOMAIN user THEN user.throwOnError
                      ELSE DEFAULT_OPTIONS.throwOnError,
     whitelist    |-> IF "whitelist" \in DOMAIN user THEN user.whitelist ELSE <<>>,
     blacklist    |-> IF "blacklist" \in DOMAIN user THEN user.blacklist ELSE <<>>,
     fields       |-> IF "fields" \in DOMAIN user THEN user.fields ELSE <<>>,
     config       |-> IF "config" \in DOMAIN user THEN user.config ELSE NoConfig,
     onSanitize   |-> IF "onSanitize" \in DOMAIN user THEN user.onSanitize
                      ELSE "undefined",
     onSkip       |-> IF "onSkip" \in DOMAIN user THEN user.onSkip
                      ELSE "undefined",
     onError      |-> IF "onError" \in DOMAIN user THEN user.onError
                      ELSE "undefined"]

-----------------------------------------------------------------------------
(* Policy resolver *)

\* mutant: a pattern matches every path that begins with its text
PatternMatches_anyPrefix(fieldPath, pattern) ==
    fieldPath = pattern \/ StartsWith(fieldPath, pattern)

PatternMatches(fieldPath, pattern) ==
    fieldPath = pattern \/ StartsWith(fieldPath, pattern \o Dot)

\* mutant: the blacklist is consulted before the whitelist
shouldSanitizeField_blacklistFirst(fieldPath, opts) ==
    IF /\ Len(opts.blacklist) > 0
       /\ \E i \in 1..Len(opts.blacklist) :
             PatternMatches(fieldPath, opts.blacklist[i])
    THEN FALSE
    ELSE IF Len(opts.whitelist) > 0
    THEN \E i \in 1..Len(opts.whitelist) :
            PatternMatches(fieldPath, opts.whitelist[i])
    ELSE TRUE

shouldSanitizeField(fieldPath, opts) ==
    IF Len(opts.whitelist) > 0
    THEN \E i \in 1..Len(opts.whitelist) :
            PatternMatches(fieldPath, opts.whitelist[i])
    ELSE IF Len(opts.blacklist) > 0
    THEN ~ \E i \in 1..Len(opts.blacklist) :
            PatternMatches(fieldPath, opts.blacklist[i])
    ELSE TRUE

RECURSIVE ParentLookup(_, _, _)

\* mutant: the parent paths are tried from the shallowest one
ParentLookup_shallowestFirst(parts, i, fields) ==
    LET found == {j \in 1..i : Join(SubSeq(parts, 1, j), Dot) \in DOMAIN fields} IN
    IF found = {} THEN NullFieldConfig
    ELSE fields[Join(SubSeq(parts, 1, CHOOSE j \in found : \A k \in found : j <= k), Dot)]

ParentLookup(parts, i, fields) ==
    IF i <= 0 THEN NullFieldConfig
    ELSE LET parentPath == Join(SubSeq(parts, 1, i), Dot) IN
         IF parentPath \in DOMAIN fields THEN fields[parentPath]
         ELSE ParentLookup(parts, i - 1, fields)

\* mutant: an ancestor's entry is preferred to the path's own
getFieldConfig_ancestorFirst(fieldPath, opts) ==
    LET parts == Split(fieldPath, ".")
        parent == ParentLookup(parts, Len(parts) - 1, opts.fields)
    IN  IF ~ parent.isNull THEN parent
        ELSE IF fieldPath \in DOMAIN opts.fields THEN opts.fields[fieldPath]
        ELSE NullFieldConfig

getFieldConfig(fieldPath, opts) ==
    IF fieldPath \in DOMAIN opts.fields THEN opts.fields[fieldPath]
    ELSE LET parts == Split(fieldPath, ".") IN
         ParentLookup(parts, Len(parts) - 1, opts.fields)

\* mutant: strict mode falls back on the capability's default allow-list
sanitizeString_strictUsesDefaults(value, mode, config) ==
    IF mode = "strict" THEN DOMPurifySanitize(value, EmptyConfig)
    ELSE IF mode = "html"
    THEN DOMPurifySanitize(value, IF config.defined THEN config ELSE EmptyConfig)
    ELSE value

sanitizeString(value, mode, config) ==
    IF mode = "strict" THEN DOMPurifySanitize(value, Config({}))
    ELSE IF mode = "html"
    THEN DOMPurifySanitize(value, IF config.defined THEN config ELSE EmptyConfig)
    ELSE value

-----------------------------------------------------------------------------
(* The heap, and the conversions the language applies to values *)

Cell(t, kids) == [t |-> t, kids |-> kids]

IsArray(v, h)       == v.t = "ref" /\ h[v.n].t = "arr"
isPlainObject(v, h) == v.t = "ref" /\ h[v.n].t = "obj"

RECURSIVE ToStringValue(_, _)
RECURSIVE JoinFrom(_, _, _, _)

\* Array.prototype.join: null and undefined elements give the empty string
JoinFrom(kids, i, sep, h) ==
    IF i > Len(kids) THEN <<>>
    ELSE (IF i > 1 THEN sep ELSE <<>>)
         \o (IF kids[i].v.t \in {"null", "undefined"} THEN <<>>
             ELSE ToStringValue(kids[i].v, h))
         \o JoinFrom(kids, i + 1, sep, h)

ToStringValue(v, h) ==
    CASE v.t = "str"       -> v.s
      [] v.t = "num"       -> NumberToString(v.n)
      [] v.t = "bool"      -> <<IF v.n = 1 THEN "true" ELSE "false">>
      [] v.t = "null"      -> <<"null">>
      [] v.t = "undefined" -> <<"undefined">>
      [] v.t = "ref"       -> IF h[v.n].t = "arr"
                              THEN JoinFrom(h[v.n].kids, 1, <<",">>, h)
                              ELSE <<"[object Object]">>
      [] OTHER             -> <<"[object Error]">>

\* obj[key] = v on an ordinary object: "__proto__" names the prototype
\* accessor, so assigning it creates no own property
SetProperty(h, a, key, v) ==
    IF key = ProtoKey THEN h
    ELSE IF \E i \in 1..Len(h[a].kids) : h[a].kids[i].k = key
    THEN [h EXCEPT ![a].kids =
            [i \in 1..Len(@) |-> IF @[i].k = key THEN Ent(key, v) ELSE @[i]]]
    ELSE [h EXCEPT ![a].kids = Append(@, Ent(key, v))]

\* arr[index] = v while Array.prototype.map fills its result
SetElement(h, a, v) == [h EXCEPT ![a].kids = Append(@, Ent(<<>>, v))]

-----------------------------------------------------------------------------
(* Errors, observers and caller-supplied sanitizer functions *)

NoExc == V("none", <<>>, 0, <<>>)
Error(message) == V("error", message, 0, <<>>)

DepthError(maxDepth, fieldPath) ==
    Error(<<"Maximum recursion depth (">> \o NumberToString(maxDepth)
          \o <<") exceeded at path: ">> \o fieldPath)

\* error instanceof Error ? error : new Error(String(error))
NormalizeError(e, h) == IF e.t = "error" THEN e ELSE Error(ToStringValue(e, h))

Event(cb, field, a, b) == [cb |-> cb, field |-> field, a |-> a, b |-> b]

\* options.onX?.(field, a, b): an observer is absent, records its call, or
\* records it and throws
Invoke(st, cb, field, a, b) ==
    LET observer == st.options[cb] IN
    IF observer = "undefined" THEN st
    ELSE IF observer = "throws"
    THEN [st EXCEPT !.log = Append(@, Event(cb, field, a, b)),
                    !.exc = Error(<<cb, " failed">>)]
    ELSE [st EXCEPT !.log = Append(@, Event(cb, field, a, b))]

\* the sanitizer functions a FieldConfig may carry
Sanitizers == {"identity", "trim", "constant", "throwError", "throwString"}
ConstantResult == Num(7)

CallSanitizer(fn, value, h) ==
    CASE fn = "identity"    -> [ret |-> value, exc |-> NoExc]
      [] fn = "trim"        -> [ret |-> Str(Trim(ToStringValue(value, h))),
                                exc |-> NoExc]
      [] fn = "constant"    -> [ret |-> ConstantResult, exc |-> NoExc]
      [] fn = "throwError"  -> [ret |-> Undefined, exc |-> Error(<<"bad input">>)]
      [] fn = "throwString" -> [ret |-> Undefined, exc |-> Str(<<"bad input">>)]

-----------------------------------------------------------------------------
(* Tree walker.  st is the machine state a call runs on: the context       *)
(* (options, currentDepth, path), the heap, the observers' log and the     *)
(* exception in flight.  Every function returns [st, ret]; a function that *)
(* binds a local before going on hands it to the operator that goes on.    *)

Ret(st, v) == [st |-> st, ret |-> v]
Raised(st) == st.exc.t # "none"
Throw(st, e) == Ret([st EXCEPT !.exc = e], Undefined)

\* ctx.path as the observer receives it: the context's own array
PathArray(path) ==
    V("ctx.path", <<>>, 0, [i \in 1..Len(path) |-> Ent(<<>>, Str(path[i]))])

shouldSkipField(fieldPath, fieldConfig, st) ==
    IF ~ shouldSanitizeField(fieldPath, st.options)
    THEN Ret(Invoke(st, "onSkip", fieldPath, PathArray(st.path), Undefined), TRUE)
    ELSE IF fieldConfig.mode = "skip"
    THEN Ret(Invoke(st, "onSkip", fieldPath, PathArray(st.path), Undefined), TRUE)
    ELSE Ret(st, FALSE)

\* mutant: a custom result is reported only when it differs from the value
applyCustomSanitizer_called_ifChanged(value, fieldPath, r, st) ==
    IF r.exc.t # "none" THEN Throw(st, r.exc)
    ELSE IF r.ret # value
    THEN Ret(Invoke(st, "onSanitize", fieldPath, value, r.ret), r.ret)
    ELSE Ret(st, r.ret)

\* applyCustomSanitizer once sanitizer(value) has returned or thrown
applyCustomSanitizer_called(value, fieldPath, r, st) ==
    IF r.exc.t # "none" THEN Throw(st, r.exc)
    ELSE Ret(Invoke(st, "onSanitize", fieldPath, value, r.ret), r.ret)

applyCustomSanitizer(value, fieldPath, sanitizer, st) ==
    applyCustomSanitizer_called(value, fieldPath,
                                CallSanitizer(sanitizer, value, st.heap), st)

\* mutant: the observer is told of every string, changed or not
sanitizeStringValue_report_always(value, fieldPath, sanitized, st) ==
    Ret(Invoke(st, "onSanitize", fieldPath, value, sanitized), sanitized)

\* sanitizeStringValue once sanitized is computed
sanitizeStringValue_report(value, fieldPath, sanitized, st) ==
    IF sanitized # value
    THEN Ret(Invoke(st, "onSanitize", fieldPath, value, sanitized), sanitized)
    ELSE Ret(st, sanitized)

sanitizeStringValue(value, fieldPath, mode, config, st) ==
    sanitizeStringValue_report(value, fieldPath,
                               Str(sanitizeString(value.s, mode, config)), st)

RECURSIVE sanitizeValue(_, _)
RECURSIVE MapFrom(_, _, _, _)
RECURSIVE MapStore(_, _, _, _)
RECURSIVE EntriesFrom(_, _, _, _)
RECURSIVE EntriesStore(_, _, _, _)

\* mutant: every element is sanitized under the first element's path
MapFrom_firstIndex(items, i, a, st) ==
    IF i > Len(items) THEN Ret(st, Ref(a))
    ELSE MapStore(items, i, a,
                  sanitizeValue(items[i].v,
                                [st EXCEPT !.path = Append(@, NumberToString(0))]))

\* value.map((item, index) => ...): the result array a is filled in order
MapFrom(items, i, a, st) ==
    IF i > Len(items) THEN Ret(st, Ref(a))
    ELSE MapStore(items, i, a,
                  sanitizeValue(items[i].v,
                                [st EXCEPT !.path = Append(@, NumberToString(i - 1))]))

\* ctx.path.pop(); return sanitized -- unless the callback threw
MapStore(items, i, a, r) ==
    IF r.st.exc.t # "none" THEN r
    ELSE MapFrom(items, i + 1, a,
                 [r.st EXCEPT !.path = SubSeq(@, 1, Len(@) - 1),
                              !.heap = SetElement(@, a, r.ret)])

\* the join strategy once the elements are joined and sanitized
sanitizeArrayValue_joined(value, fieldPath, sanitized, st) ==
    Ret(Invoke(st, "onSanitize", fieldPath, value, sanitized), sanitized)

\* mutant: the join strategy joins the elements as String(array) does
sanitizeArrayValue_commas(value, fieldPath, mode, config, st) ==
    IF st.options.arrays = "skip"
    THEN Ret(Invoke(st, "onSkip", fieldPath, value, Undefined), value)
    ELSE IF st.options.arrays = "join"
    THEN sanitizeArrayValue_joined(value, fieldPath,
            Str(sanitizeString(JoinFrom(st.heap[value.n].kids, 1, <<",">>, st.heap),
                               mode, config)),
            st)
    ELSE MapFrom(st.heap[value.n].kids, 1, Len(st.heap) + 1,
                 [st EXCEPT !.heap = Append(@, Cell("arr", <<>>))])

\* mutant: the skip strategy hands the observer the context's path
sanitizeArrayValue_skipPath(value, fieldPath, mode, config, st) ==
    IF st.options.arrays = "skip"
    THEN Ret(Invoke(st, "onSkip", fieldPath, PathArray(st.path), Undefined), value)
    ELSE IF st.options.arrays = "join"
    THEN sanitizeArrayValue_joined(value, fieldPath,
            Str(sanitizeString(JoinFrom(st.heap[value.n].kids, 1, <<" ">>, st.heap),
                               mode, config)),
            st)
    ELSE MapFrom(st.heap[value.n].kids, 1, Len(st.heap) + 1,
                 [st EXCEPT !.heap = Append(@, Cell("arr", <<>>))])

sanitizeArrayValue(value, fieldPath, mode, config, st) ==
    IF st.options.arrays = "skip"
    THEN Ret(Invoke(st, "onSkip", fieldPath, value, Undefined), value)
    ELSE IF st.options.arrays = "join"
    THEN sanitizeArrayValue_joined(value, fieldPath,
            Str(sanitizeString(JoinFrom(st.heap[value.n].kids, 1, <<" ">>, st.heap),
                               mode, config)),
            st)
    ELSE MapFrom(st.heap[value.n].kids, 1, Len(st.heap) + 1,
                 [st EXCEPT !.heap = Append(@, Cell("arr", <<>>))])

\* for (const [key, val] of Object.entries(value)) in sanitizeObjectValue
EntriesFrom(entries, i, a, st) ==
    IF i > Len(entries) THEN Ret(st, Ref(a))
    ELSE EntriesStore(entries, i, a,
                      sanitizeValue(entries[i].v,
                                    [st EXCEPT !.path = Append(@, entries[i].k),
                                               !.currentDepth = @ + 1]))

\* mutant: the depth is not taken back after a key
EntriesStore_keepsDepth(entries, i, a, r) ==
    IF r.st.exc.t # "none" THEN r
    ELSE EntriesFrom(entries, i + 1, a,
                     [r.st EXCEPT !.heap = SetProperty(@, a, entries[i].k, r.ret),
                                  !.path = SubSeq(@, 1, Len(@) - 1)])

\* sanitized[key] = ...; ctx.currentDepth--; ctx.path.pop()
EntriesStore(entries, i, a, r) ==
    IF r.st.exc.t # "none" THEN r
    ELSE EntriesFrom(entries, i + 1, a,
                     [r.st EXCEPT !.heap = SetProperty(@, a, entries[i].k, r.ret),
                                  !.currentDepth = @ - 1,
                                  !.path = SubSeq(@, 1, Len(@) - 1)])

\* mutant: the object is sanitized in place instead of into a new object
sanitizeObjectValue_inPlace(value, fieldPath, st) ==
    IF st.currentDepth >= st.options.maxDepth
    THEN IF st.options.throwOnError
         THEN Throw(st, DepthError(st.options.maxDepth, fieldPath))
         ELSE Ret(Invoke(st, "onError", fieldPath,
                         DepthError(st.options.maxDepth, fieldPath), Undefined),
                  value)
    ELSE EntriesFrom(st.heap[value.n].kids, 1, value.n, st)

\* mutant: an object is refused only once the depth has passed maxDepth
sanitizeObjectValue_pastBound(value, fieldPath, st) ==
    IF st.currentDepth > st.options.maxDepth
    THEN IF st.options.throwOnError
         THEN Throw(st, DepthError(st.options.maxDepth, fieldPath))
         ELSE Ret(Invoke(st, "onError", fieldPath,
                         DepthError(st.options.maxDepth, fieldPath), Undefined),
                  value)
    ELSE EntriesFrom(st.heap[value.n].kids, 1, Len(st.heap) + 1,
                     [st EXCEPT !.heap = Append(@, Cell("obj", <<>>))])

sanitizeObjectValue(value, fieldPath, st) ==
    IF st.currentDepth >= st.options.maxDepth
    THEN IF st.options.throwOnError
         THEN Throw(st, DepthError(st.options.maxDepth, fieldPath))
         ELSE Ret(Invoke(st, "onError", fieldPath,
                         DepthError(st.options.maxDepth, fieldPath), Undefined),
                  value)
    ELSE EntriesFrom(st.heap[value.n].kids, 1, Len(st.heap) + 1,
                     [st EXCEPT !.heap = Append(@, Cell("obj", <<>>))])

\* fieldConfig?.mode || ctx.options.mode
ModeOf(fieldConfig, opts) ==
    IF fieldConfig.mode # "undefined" THEN fieldConfig.mode ELSE opts.mode

\* fieldConfig?.config || ctx.options.config
ConfigOf(fieldConfig, opts) ==
    IF fieldConfig.config.defined THEN fieldConfig.config ELSE opts.config

\* mutant: a value of another type is returned converted to a string
sanitizeValue_dispatch_stringifies(value, fieldPath, fieldConfig, skip, st) ==
    CASE skip.st.exc.t # "none" -> Ret(skip.st, Undefined)
      [] skip.ret -> Ret(skip.st, value)
      [] fieldConfig.mode = "custom" /\ fieldConfig.sanitizer # "undefined" ->
            applyCustomSanitizer(value, fieldPath, fieldConfig.sanitizer, st)
      [] value.t = "str" ->
            sanitizeStringValue(value, fieldPath, ModeOf(fieldConfig, st.options),
                                ConfigOf(fieldConfig, st.options), st)
      [] IsArray(value, st.heap) ->
            sanitizeArrayValue(value, fieldPath, ModeOf(fieldConfig, st.options),
                               ConfigOf(fieldConfig, st.options), st)
      [] isPlainObject(value, st.heap) /\ st.options.deep ->
            sanitizeObjectValue(value, fieldPath, st)
      [] OTHER -> Ret(st, Str(ToStringValue(value, st.heap)))

\* mutant: plain objects are entered whatever options.deep says
sanitizeValue_dispatch_alwaysDeep(value, fieldPath, fieldConfig, skip, st) ==
    CASE skip.st.exc.t # "none" -> Ret(skip.st, Undefined)
      [] skip.ret -> Ret(skip.st, value)
      [] fieldConfig.mode = "custom" /\ fieldConfig.sanitizer # "undefined" ->
            applyCustomSanitizer(value, fieldPath, fieldConfig.sanitizer, st)
      [] value.t = "str" ->
            sanitizeStringValue(value, fieldPath, ModeOf(fieldConfig, st.options),
                                ConfigOf(fieldConfig, st.options), st)
      [] IsArray(value, st.heap) ->
            sanitizeArrayValue(value, fieldPath, ModeOf(fieldConfig, st.options),
                               ConfigOf(fieldConfig, st.options), st)
      [] isPlainObject(value, st.heap) ->
            sanitizeObjectValue(value, fieldPath, st)
      [] OTHER -> Ret(st, value)

\* the try block of sanitizeValue once shouldSkipField has answered
sanitizeValue_dispatch(value, fieldPath, fieldConfig, skip, st) ==
    CASE skip.st.exc.t # "none" -> Ret(skip.st, Undefined)
      [] skip.ret -> Ret(skip.st, value)
      [] fieldConfig.mode = "custom" /\ fieldConfig.sanitizer # "undefined" ->
            applyCustomSanitizer(value, fieldPath, fieldConfig.sanitizer, st)
      [] value.t = "str" ->
            sanitizeStringValue(value, fieldPath, ModeOf(fieldConfig, st.options),
                                ConfigOf(fieldConfig, st.options), st)
      [] IsArray(value, st.heap) ->
            sanitizeArrayValue(value, fieldPath, ModeOf(fieldConfig, st.options),
                               ConfigOf(fieldConfig, st.options), st)
      [] isPlainObject(value, st.heap) /\ st.options.deep ->
            sanitizeObjectValue(value, fieldPath, st)
      [] OTHER -> Ret(st, value)

\* the try block of sanitizeValue once getFieldConfig has answered
sanitizeValue_configured(value, fieldPath, fieldConfig, st) ==
    sanitizeValue_dispatch(value, fieldPath, fieldConfig,
                           shouldSkipField(fieldPath, fieldConfig, st), st)

\* the try block of sanitizeValue
sanitizeValue_try(value, fieldPath, st) ==
    sanitizeValue_configured(value, fieldPath,
                             getFieldConfig(fieldPath, st.options), st)

\* mutant: a contained failure is reported and undefined is returned
sanitizeValue_catch_undefined(value, fieldPath, st, r) ==
    IF r.st.exc.t = "none" THEN r
    ELSE IF st.options.throwOnError
    THEN Throw(r.st, NormalizeError(r.st.exc, r.st.heap))
    ELSE Ret(Invoke([r.st EXCEPT !.exc = NoExc], "onError", fieldPath,
                    NormalizeError(r.st.exc, r.st.heap), Undefined),
             Undefined)

\* mutant: a failure is rethrown whatever throwOnError says
sanitizeValue_catch_rethrows(value, fieldPath, st, r) ==
    IF r.st.exc.t = "none" THEN r
    ELSE Throw(r.st, NormalizeError(r.st.exc, r.st.heap))

\* the catch block of sanitizeValue: r is how the try block ended
sanitizeValue_catch(value, fieldPath, st, r) ==
    IF r.st.exc.t = "none" THEN r
    ELSE IF st.options.throwOnError
    THEN Throw(r.st, NormalizeError(r.st.exc, r.st.heap))
    ELSE Ret(Invoke([r.st EXCEPT !.exc = NoExc], "onError", fieldPath,
                    NormalizeError(r.st.exc, r.st.heap), Undefined),
             value)

\* the context as sanitizeValue finds it on entry, kept for the record
Entered(value, st) ==
    [st EXCEPT !.seen = Append(@, [value |-> value, path |-> st.path,
                                   currentDepth |-> st.currentDepth])]

sanitizeValue(value, st) ==
    sanitizeValue_catch(value, Join(st.path, Dot), st,
                        sanitizeValue_try(value, Join(st.path, Dot),
                                          Entered(value, st)))

\* for (const [key, value] of Object.entries(target)) in sanitizeTarget
RECURSIVE TargetFrom(_, _, _, _)
RECURSIVE TargetStore(_, _, _, _)
TargetFrom(entries, i, a, st) ==
    IF i > Len(entries) THEN Ret(st, Ref(a))
    ELSE TargetStore(entries, i, a,
                     sanitizeValue(entries[i].v,
                                   [st EXCEPT !.path = Append(@, entries[i].k)]))

\* sanitized[key] = ...; ctx.path.pop()
TargetStore(entries, i, a, r) ==
    IF r.st.exc.t # "none" THEN r
    ELSE TargetFrom(entries, i + 1, a,
                    [r.st EXCEPT !.heap = SetProperty(@, a, entries[i].k, r.ret),
                                 !.path = SubSeq(@, 1, Len(@) - 1)])

\* the context of one call, and the machine state it starts on
NewContext(opts, h) ==
    [options |-> opts, currentDepth |-> 0, path |-> <<>>,
     heap |-> h, log |-> <<>>, exc |-> NoExc, seen |-> <<>>]

\* mutant: the target's keys are walked last to first
sanitizeTarget_lastKeyFirst(tgt, opts, h) ==
    TargetFrom([i \in 1..Len(h[tgt.n].kids) |->
                   h[tgt.n].kids[Len(h[tgt.n].kids) + 1 - i]],
               1, Len(h) + 1, NewContext(opts, Append(h, Cell("obj", <<>>))))

\* mutant: every call goes on from the context the last call left behind
sanitizeTarget_sharedContext(tgt, opts, h) ==
    TargetFrom(h[tgt.n].kids, 1, Len(h) + 1,
               [NewContext(opts, Append(h, Cell("obj", <<>>)))
                   EXCEPT !.currentDepth = ctx.currentDepth, !.path = ctx.path])

sanitizeTarget(tgt, opts, h) ==
    TargetFrom(h[tgt.n].kids, 1, Len(h) + 1,
               NewContext(opts, Append(h, Cell("obj", <<>>))))

-----------------------------------------------------------------------------
(* Decoded input: JSON.parse builds the tree on the heap, children first *)

RECURSIVE Load(_, _)
RECURSIVE LoadFrom(_, _, _, _)
LoadFrom(kids, i, acc, h) ==
    IF i > Len(kids) THEN [heap |-> h, kids |-> acc]
    ELSE LET r == Load(kids[i].v, h) IN
         LoadFrom(kids, i + 1, Append(acc, Ent(kids[i].k, r.ret)), r.heap)

Load(tree, h) ==
    IF tree.t \in {"obj", "arr"}
    THEN LET r == LoadFrom(tree.kids, 1, <<>>, h) IN
         [heap |-> Append(r.heap, Cell(tree.t, r.kids)), ret |-> Ref(Len(r.heap) + 1)]
    ELSE [heap |-> h, ret |-> tree]

\* the tree a value stands for (what JSON.stringify would show of it)
RECURSIVE Reify(_, _)
Reify(v, h) ==
    IF v.t = "ref"
    THEN V(h[v.n].t, <<>>, 0,
           [i \in 1..Len(h[v.n].kids) |->
               Ent(h[v.n].kids[i].k, Reify(h[v.n].kids[i].v, h))])
    ELSE v

-----------------------------------------------------------------------------
(* Trees and node paths.  A node path is the list of segments ctx.path     *)
(* holds while the node is visited: keys, and indices in decimal.          *)

Segment(tree, i) ==
    IF tree.t = "arr" THEN NumberToString(i - 1) ELSE tree.kids[i].k

HasChild(tree, seg) ==
    \E i \in 1..Len(tree.kids) : Segment(tree, i) = seg

Child(tree, seg) ==
    tree.kids[CHOOSE i \in 1..Len(tree.kids) : Segment(tree, i) = seg].v

RECURSIVE Has(_, _)
Has(tree, segs) ==
    \/ segs = <<>>
    \/ /\ HasChild(tree, Head(segs))
       /\ Has(Child(tree, Head(segs)), Tail(segs))

RECURSIVE Get(_, _)
Get(tree, segs) ==
    IF segs = <<>> THEN tree ELSE Get(Child(tree, Head(segs)), Tail(segs))

RECURSIVE NodePaths(_)
NodePaths(tree) ==
    {<<>>} \cup UNION {{<<Segment(tree, i)>> \o rest :
                            rest \in NodePaths(tree.kids[i].v)} :
                       i \in 1..Len(tree.kids)}

\* the nodes below the target itself
FieldPaths(tree) == NodePaths(tree) \ {<<>>}

Prefix(segs, k) == SubSeq(segs, 1, k)
IsCollection(tree) == tree.t \in {"obj", "arr"}

-----------------------------------------------------------------------------
(* Bounded inputs *)

MaxNodes == 3
MaxChain == 5

RECURSIVE TreesOfSize(_, _, _)
RECURSIVE ArrayKids(_, _, _)
RECURSIVE ObjectKids(_, _, _, _)

ArrayKids(n, leaves, keys) ==
    IF n = 0 THEN {<<>>}
    ELSE UNION {{<<Ent(<<>>, t)>> \o rest :
                    t \in TreesOfSize(k, leaves, keys),
                    rest \in ArrayKids(n - k, leaves, keys)} : k \in 1..n}

ObjectKids(n, from, leaves, keys) ==
    IF n = 0 THEN {<<>>}
    ELSE UNION {{<<Ent(keys[j], t)>> \o rest :
                    t \in TreesOfSize(k, leaves, keys),
                    rest \in ObjectKids(n - k, j + 1, leaves, keys)} :
                <<j, k>> \in (from..Len(keys)) \X (1..n)}

TreesOfSize(n, leaves, keys) ==
    IF n = 1 THEN leaves \cup {Obj(<<>>), Arr(<<>>)}
    ELSE {Arr(kids) : kids \in ArrayKids(n - 1, leaves, keys)}
         \cup {Obj(kids) : kids \in ObjectKids(n - 1, 1, leaves, keys)}

\* every target with at most n nodes below it
Targets(n, leaves, keys) ==
    UNION {{Obj(kids) : kids \in ObjectKids(m, 1, leaves, keys)} : m \in 0..n}

\* {a: {a: ... {a: leaf}}}: k objects below the target
RECURSIVE Chain(_, _, _)
Chain(k, key, leaf) ==
    IF k = 0 THEN leaf ELSE Obj(<<Ent(key, Chain(k - 1, key, leaf))>>)

Markup  == Str(<<"<b>", "x", "</b>">>)
Script  == Str(<<"<script>", "a", "</script>", "H">>)
Plain   == Str(<<"x">>)
Padded  == Str(<<" ", "<b>", "x", "</b>">>)

KeyA  == <<"a">>
KeyB  == <<"b">>
KeyAB == <<"a", "b">>
KeyADotB == <<"a", ".", "b">>

Observed == [onSanitize |-> "records", onSkip |-> "records", onError |-> "records"]

-----------------------------------------------------------------------------
(* The state machine *)

InitWith(opts, tree) ==
    /\ options = opts
    /\ input = tree
    /\ heap = Load(tree, <<>>).heap
    /\ target = Load(tree, <<>>).ret
    /\ pc = "ready"
    /\ result = Undefined
    /\ thrown = NoExc
    /\ ctx = [currentDepth |-> 0, path |-> <<>>]
    /\ log = <<>>
    /\ lookup = [fieldPath |-> <<>>, fieldConfig |-> NullFieldConfig, made |-> FALSE]
    /\ request = <<>>
    /\ stored = <<>>
    /\ nextCalls = 0
    /\ got = [name |-> "none", value |-> Undefined]
    /\ other = <<>>

\* the promise of sanitizeTarget settles: r is how the call ended
Settle(r) ==
    /\ heap' = r.st.heap
    /\ log' = r.st.log
    /\ ctx' = [currentDepth |-> r.st.currentDepth, path |-> r.st.path]
    /\ IF Raised(r.st)
       THEN pc' = "rejected" /\ thrown' = r.st.exc /\ result' = result
       ELSE pc' = "resolved" /\ result' = r.ret /\ thrown' = thrown

\* one call of sanitizeTarget, run to completion: it never yields
SanitizeTarget ==
    /\ pc = "ready"
    /\ Settle(sanitizeTarget(target, options, heap))
    /\ UNCHANGED <<options, input, target, lookup, request, stored, nextCalls,
                   got, other>>

Next == SanitizeTarget

\* one call of getFieldConfig for the path in lookup
Resolve ==
    /\ pc = "lookup"
    /\ ~ lookup.made
    /\ lookup' = [lookup EXCEPT !.fieldConfig = getFieldConfig(lookup.fieldPath, options),
                                !.made = TRUE]
    /\ UNCHANGED <<options, input, heap, target, pc, result, thrown, ctx, log,
                   request, stored, nextCalls, got, other>>

NextResolve == Resolve

\* the tree the call returned
Output == Reify(result, heap)

-----------------------------------------------------------------------------
(* What the walker is to do with each node, read off the input tree *)

\* currentDepth while the node is visited: the objects below the target
\* that enclose it
DepthAt(tree, segs) ==
    Cardinality({k \in 1..(Len(segs) - 1) : Get(tree, Prefix(segs, k)).t = "obj"})

ResolvedMode(fieldPath, opts) ==
    LET fc == getFieldConfig(fieldPath, opts) IN
    IF fc.mode # "undefined" THEN fc.mode ELSE opts.mode

ResolvedConfig(fieldPath, opts) ==
    LET fc == getFieldConfig(fieldPath, opts) IN
    IF fc.config.defined THEN fc.config ELSE opts.config

Handling(tree, segs, opts) ==
    LET fieldPath == Join(segs, Dot)
        fc == getFieldConfig(fieldPath, opts)
        node == Get(tree, segs)
    IN  CASE ~ shouldSanitizeField(fieldPath, opts) -> "outOfScope"
          [] fc.mode = "skip" -> "skip"
          [] fc.mode = "custom" /\ fc.sanitizer # "undefined" -> "custom"
          [] node.t = "str" -> "string"
          [] node.t = "arr" -> "array:" \o opts.arrays
          [] node.t = "obj" /\ opts.deep ->
                IF DepthAt(tree, segs) >= opts.maxDepth THEN "tooDeep" ELSE "object"
          [] OTHER -> "other"

\* the walker descends into the children of exactly these nodes
Descends(tree, segs, opts) ==
    Handling(tree, segs, opts) \in {"object", "array:each"}

\* the node is handed to sanitizeValue
Visited(tree, segs, opts) ==
    \A k \in 1..(Len(segs) - 1) : Descends(tree, Prefix(segs, k), opts)

\* no enclosing object sits at or past the depth bound
WithinBound(tree, segs, opts) ==
    \A k \in 1..(Len(segs) - 1) :
        Get(tree, Prefix(segs, k)).t = "obj"
            => DepthAt(tree, Prefix(segs, k)) < opts.maxDepth

StripAll(s) == DOMPurifySanitize(s, Config({}))

-----------------------------------------------------------------------------
(* Any configuration: every combination of the global settings, and the    *)
(* scope lists and per-field entries laid over the defaults                *)

FieldChoices ==
    {<<>>}
    \cup {KeyA :> FieldConfig(m, NoConfig, "undefined") : m \in {"skip", "html", "custom"}}
    \cup {KeyA :> FieldConfig("custom", NoConfig, fn) : fn \in Sanitizers}
    \cup {<<"a", ".", "0">> :> FieldConfig("custom", NoConfig, "constant"),
          <<"a", ".", "a">> :> FieldConfig("skip", NoConfig, "undefined")}

GlobalOptions ==
    [mode : {"strict", "html", "skip"}, arrays : {"each", "join", "skip"},
     deep : BOOLEAN]
    \cup [arrays : {"each", "join", "skip"}, maxDepth : {1}, throwOnError : BOOLEAN]

ScopedOptions ==
    [fields : FieldChoices]
    \cup [whitelist : {<<>>, <<KeyA>>}, blacklist : {<<>>, <<KeyA>>},
          fields : {<<>>,
                    KeyA :> FieldConfig("skip", NoConfig, "undefined"),
                    KeyA :> FieldConfig("custom", NoConfig, "constant")}]

\* observers and sanitizer functions that throw, with and without rethrowing
FailingOptions ==
    [onSanitize : {"throws"}, throwOnError : BOOLEAN]
    \cup [onSkip : {"throws"}, blacklist : {<<KeyA>>}, throwOnError : BOOLEAN]
    \cup [onError : {"throws"}, maxDepth : {1}]
    \cup [fields : {KeyA :> FieldConfig("custom", NoConfig, fn) :
                        fn \in {"throwError", "throwString"}},
          throwOnError : {TRUE}]

Configurations ==
    {MergedOptions(o @@ Observed) :
        o \in GlobalOptions \cup ScopedOptions \cup FailingOptions}

\* bodies over two ordinary keys, and smaller ones that carry "__proto__"
Inputs ==
    Targets(MaxNodes, {Padded, Num(1), Null}, <<KeyA, KeyB>>)
    \cup Targets(MaxNodes - 1, {Padded, Bool(TRUE)}, <<KeyA, ProtoKey>>)

Init == \E opts \in Configurations, tree \in Inputs : InitWith(opts, tree)

Spec == Init /\ [][Next]_vars

\* the value found below v along a node path, by reference
RECURSIVE ValueAt(_, _, _)
ValueAt(v, segs, h) ==
    IF segs = <<>> THEN v
    ELSE LET kids == h[v.n].kids
             i == CHOOSE i \in 1..Len(kids) :
                     IF h[v.n].t = "arr" THEN NumberToString(i - 1) = Head(segs)
                     ELSE kids[i].k = Head(segs)
         IN  ValueAt(kids[i].v, Tail(segs), h)

\* the heap cells the decoded input occupies
InputCells == 1..Len(Load(input, <<>>).heap)

InputKept == \A a \in InputCells : heap[a] = Load(input, <<>>).heap[a]

\* the node sits under a key that assignment to the result object drops
UnderProtoKey(segs) == \E i \in 1..Len(segs) : segs[i] = ProtoKey

\* C2: the call leaves every object, array and leaf of the input as it was;
\* the target, and every object or array the walker descends into, stands in
\* the returned tree as a collection the call created
C2_InputKeptDescendedNew ==
    /\ InputKept
    /\ pc = "resolved" =>
         /\ result.n \notin InputCells
         /\ \A segs \in FieldPaths(input) :
               (Visited(input, segs, options) /\ Descends(input, segs, options))
                  => /\ Has(Output, segs) <=> ~ UnderProtoKey(segs)
                     /\ Has(Output, segs)
                           => ValueAt(result, segs, heap).n \notin InputCells

\* a nested object holding markup was descended into and rebuilt
C2_Witness ==
    /\ pc = "resolved"
    /\ \E segs \in FieldPaths(input) :
          /\ Get(input, segs).t = "obj"
          /\ Visited(input, segs, options) /\ Descends(input, segs, options)
          /\ Has(Output, segs)
          /\ \E i \in 1..Len(Get(input, segs).kids) :
                /\ Get(input, segs).kids[i].v = Padded
                /\ Get(Output, segs).kids[i].v # Padded

\* C2 as stated: every object or array handed to the walker is replaced by
\* a new collection
C2_VisitedNew ==
    /\ InputKept
    /\ pc = "resolved" =>
         \A segs \in FieldPaths(input) :
            (Visited(input, segs, options) /\ IsCollection(Get(input, segs)))
               => /\ Has(Output, segs)
                  /\ ValueAt(result, segs, heap).t = "ref"
                  /\ ValueAt(result, segs, heap).n \notin InputCells

IsPassthrough(v) == v.t \in {"num", "bool", "null"}

\* a custom function is applied to the node or to a node enclosing it, or an
\* enclosing array is joined into one string
Replaced(tree, segs, opts) ==
    \E k \in 1..Len(segs) :
        /\ Visited(tree, Prefix(segs, k), opts)
        /\ Handling(tree, Prefix(segs, k), opts) \in {"custom", "array:join"}

\* C4: a number, a boolean or null that no custom function and no joined
\* array replaces stands unchanged at its position of the returned tree,
\* wherever the returned tree has that position
C4_PassthroughUnlessReplaced ==
    pc = "resolved" =>
        \A segs \in FieldPaths(input) :
            (IsPassthrough(Get(input, segs)) /\ ~ Replaced(input, segs, options))
                => /\ Has(Output, segs) \/ UnderProtoKey(segs)
                   /\ Has(Output, segs) => Get(Output, segs) = Get(input, segs)

\* a number, a boolean and null came through a call that transformed a
\* string next to them
C4_Witness ==
    /\ pc = "resolved"
    /\ \E p, q \in FieldPaths(input) :
          /\ Len(p) = 2 /\ Len(q) = 2
          /\ Get(input, p).t \in {"bool", "null"} /\ Get(input, q) = Padded
          /\ Visited(input, p, options) /\ ~ Replaced(input, p, options)
          /\ Get(Output, p) = Get(input, p)
          /\ Get(Output, q) # Padded

\* C4 as stated: under any configuration every number, boolean and null is
\* in the returned tree unchanged
C4_PassthroughAlways ==
    pc = "resolved" =>
        \A segs \in FieldPaths(input) :
            IsPassthrough(Get(input, segs))
                => /\ Has(Output, segs)
                   /\ Get(Output, segs) = Get(input, segs)

-----------------------------------------------------------------------------
(* Scope lists and per-field entries, under strategy each and deep         *)
(* traversal; the key "ab" begins with the text of the key "a"             *)

KeyADotAB == <<"a", ".", "a", "b">>

ScopeFields ==
    {<<>>,
     KeyA :> FieldConfig("html", NoConfig, "undefined"),
     KeyA :> FieldConfig("custom", NoConfig, "constant"),
     KeyAB :> FieldConfig("custom", NoConfig, "constant"),
     KeyADotAB :> FieldConfig("skip", NoConfig, "undefined")}

ScopeOptions ==
    [whitelist : {<<>>, <<KeyA>>, <<KeyADotAB>>, <<KeyAB, KeyA>>},
     blacklist : {<<>>, <<KeyA>>, <<KeyADotAB>>, <<KeyAB>>},
     fields : ScopeFields]
    \cup [mode : {"html"}, whitelist : {<<>>, <<KeyA>>}, blacklist : {<<>>, <<KeyA>>},
          fields : {<<>>, KeyA :> FieldConfig("html", NoConfig, "undefined")}]

ScopeInputs == Targets(MaxNodes, {Markup, Num(1)}, <<KeyA, KeyAB>>)

InitScope ==
    \E o \in ScopeOptions, tree \in ScopeInputs :
        InitWith(MergedOptions(o @@ Observed), tree)

SpecScope == InitScope /\ [][Next]_vars

\* the path equals the entry or starts with "<entry>."
EqualsOrExtends(fieldPath, entry) ==
    \/ fieldPath = entry
    \/ /\ Len(fieldPath) > Len(entry)
       /\ SubSeq(fieldPath, 1, Len(entry) + 1) = entry \o Dot

Listed(fieldPath, list) ==
    \E i \in 1..Len(list) : EqualsOrExtends(fieldPath, list[i])

\* what the call returns when run on the same input under other options
OutputUnder(opts) ==
    LET h == SubSeq(heap, 1, Len(Load(input, <<>>).heap))
        r == sanitizeTarget(target, opts, h)
    IN  [tree |-> Reify(r.ret, r.st.heap), log |-> r.st.log]

\* the string the node's resolved mode makes of a string leaf
ByResolvedMode(tree, segs, opts) ==
    Str(sanitizeString(Get(tree, segs).s,
                       ResolvedMode(Join(segs, Dot), opts),
                       ResolvedConfig(Join(segs, Dot), opts)))

ByOwnEntry(tree, segs, opts) ==
    LET entry == opts.fields[Join(segs, Dot)]
        node == Get(tree, segs)
    IN  CASE entry.mode = "skip" -> node
          [] entry.mode = "custom" /\ entry.sanitizer # "undefined" ->
                IF CallSanitizer(entry.sanitizer, node, <<>>).exc = NoExc
                THEN CallSanitizer(entry.sanitizer, node, <<>>).ret
                ELSE node
          [] node.t = "str" ->
                Str(sanitizeString(node.s, entry.mode,
                                   IF entry.config.defined THEN entry.config
                                   ELSE opts.config))
          [] OTHER -> node

\* C7: a leaf that has an entry in fields is processed according to that
\* entry even when it is blacklisted or absent from a non-empty whitelist
C7_FieldsOverrideScope ==
    pc = "resolved" =>
        \A segs \in FieldPaths(input) :
            ( /\ Len(segs) = 1
              /\ Join(segs, Dot) \in DOMAIN options.fields
              /\ ~ IsCollection(Get(input, segs)) )
               => Get(Output, segs) = ByOwnEntry(input, segs, options)

-----------------------------------------------------------------------------
(* The policy resolver on its own: every path of up to MaxSegments         *)
(* segments, a segment being "a", "b" or the empty key, against every      *)
(* choice of entries                                                       *)

MaxSegments == 3

SegmentLists(n) ==
    UNION {[1..m -> {KeyA, KeyB, <<>>}] : m \in 1..n}

LookupPaths == {Join(segs, Dot) : segs \in SegmentLists(MaxSegments)}

\* one entry for each path that may carry one, each unlike the others
EntryOf ==
    (KeyA :> FieldConfig("strict", NoConfig, "undefined"))
    @@ (KeyADotB :> FieldConfig("html", Config({"b"}), "undefined"))
    @@ (<<"a", ".", "b", ".", "a">> :> FieldConfig("skip", NoConfig, "undefined"))
    @@ (<<"a", ".", "a">> :> FieldConfig("custom", NoConfig, "trim"))
    @@ (KeyB :> FieldConfig("custom", NoConfig, "constant"))
    @@ (<<>> :> FieldConfig("html", NoConfig, "undefined"))

FieldMappings == {[p \in D |-> EntryOf[p]] : D \in SUBSET DOMAIN EntryOf}

InitResolve ==
    \E f \in FieldMappings, p \in LookupPaths, m \in {"strict", "html"} :
        /\ options = MergedOptions([fields |-> f, mode |-> m])
        /\ input = Obj(<<>>)
        /\ heap = Load(Obj(<<>>), <<>>).heap
        /\ target = Load(Obj(<<>>), <<>>).ret
        /\ pc = "lookup"
        /\ result = Undefined
        /\ thrown = NoExc
        /\ ctx = [currentDepth |-> 0, path |-> <<>>]
        /\ log = <<>>
        /\ lookup = [fieldPath |-> p, fieldConfig |-> NullFieldConfig, made |-> FALSE]
        /\ request = <<>>
        /\ stored = <<>>
        /\ nextCalls = 0
        /\ got = [name |-> "none", value |-> Undefined]
        /\ other = <<>>

SpecResolve == InitResolve /\ [][NextResolve]_vars

\* the paths got from a path by dropping trailing dotted segments
AncestorPaths(fieldPath) ==
    {SubSeq(fieldPath, 1, k - 1) : k \in {j \in 1..Len(fieldPath) : fieldPath[j] = "."}}

\* the ancestors that have an entry
EntryAncestors(fieldPath, fields) == AncestorPaths(fieldPath) \cap DOMAIN fields

Nearest(paths) == CHOOSE q \in paths : \A r \in paths : Len(r) <= Len(q)

\* C8: the resolver returns the entry stored under the exact path if there
\* is one, otherwise the entry of the nearest ancestor path that has one,
\* otherwise no entry, and then the global mode and settings apply
C8_ResolutionOrder ==
    lookup.made =>
        LET p == lookup.fieldPath
            fields == options.fields
        IN  /\ p \in DOMAIN fields => lookup.fieldConfig = fields[p]
            /\ (p \notin DOMAIN fields /\ EntryAncestors(p, fields) # {})
                  => lookup.fieldConfig = fields[Nearest(EntryAncestors(p, fields))]
            /\ (p \notin DOMAIN fields /\ EntryAncestors(p, fields) = {})
                  => /\ lookup.fieldConfig = NullFieldConfig
                     /\ ModeOf(lookup.fieldConfig, options) = options.mode
                     /\ ConfigOf(lookup.fieldConfig, options) = options.config

\* "a.b.b" has no entry of its own and took the entry of "a.b", not of "a"
C8_Witness ==
    /\ lookup.made
    /\ lookup.fieldPath = <<"a", ".", "b", ".", "b">>
    /\ {KeyA, KeyADotB} \subseteq DOMAIN options.fields
    /\ lookup.fieldConfig = EntryOf[KeyADotB]

-----------------------------------------------------------------------------
(* Per-field entries: an entry for a nested path, with or without an entry *)
(* for the path "a" above it                                               *)

OwnEntries ==
    {FieldConfig("strict", NoConfig, "undefined"),
     FieldConfig("html", Config({"i"}), "undefined"),
     FieldConfig("skip", NoConfig, "undefined"),
     FieldConfig("custom", NoConfig, "identity"),
     FieldConfig("custom", NoConfig, "trim")}

AncestorEntries ==
    {FieldConfig("strict", NoConfig, "undefined"),
     FieldConfig("html", NoConfig, "undefined"),
     FieldConfig("skip", NoConfig, "undefined"),
     FieldConfig("custom", NoConfig, "undefined"),
     FieldConfig("custom", NoConfig, "constant"),
     FieldConfig("custom", NoConfig, "identity")}

NestedPaths == {KeyADotB, <<"a", ".", "0">>}

FieldsChoices ==
    {p :> own : p \in NestedPaths, own \in OwnEntries}
    \cup {(KeyA :> anc) @@ (p :> own) :
             p \in NestedPaths, own \in OwnEntries, anc \in AncestorEntries}
    \cup {KeyA :> anc : anc \in AncestorEntries}

FieldsOptions ==
    [fields : FieldsChoices]
    \cup [fields : {p :> own : p \in NestedPaths, own \in OwnEntries}, mode : {"html"}]
    \cup [fields : {KeyA :> anc : anc \in AncestorEntries},
          blacklist : {<<KeyA>>, <<KeyB>>}]

FieldsInputs == Targets(MaxNodes, {Padded, Num(1)}, <<KeyA, KeyB>>)

InitFields ==
    \E o \in FieldsOptions, tree \in FieldsInputs :
        InitWith(MergedOptions(o @@ Observed), tree)

SpecFields == InitFields /\ [][Next]_vars

\* the node's path has an entry and so has a path above it
HasOwnAndAncestorEntry(segs, opts) ==
    /\ Join(segs, Dot) \in DOMAIN opts.fields
    /\ EntryAncestors(Join(segs, Dot), opts.fields) # {}

\* C9: where fields has an entry for P and one for an ancestor of P, and the
\* walker reaches the leaf at P in scope, the leaf stands in the returned
\* tree as P's own entry makes it
C9_ExactWinsWhereReached ==
    pc = "resolved" =>
        \A segs \in FieldPaths(input) :
            ( /\ HasOwnAndAncestorEntry(segs, options)
              /\ ~ IsCollection(Get(input, segs))
              /\ Visited(input, segs, options)
              /\ ~ Listed(Join(segs, Dot), options.blacklist) )
               => /\ Has(Output, segs)
                  /\ Get(Output, segs) = ByOwnEntry(input, segs, options)

\* under an html entry for "a" the leaf at "a.b" came out as its own strict
\* entry makes it, which is not what html makes of it
C9_Witness ==
    /\ pc = "resolved"
    /\ KeyA \in DOMAIN options.fields /\ options.fields[KeyA].mode = "html"
    /\ KeyADotB \in DOMAIN options.fields /\ options.fields[KeyADotB].mode = "strict"
    /\ Has(input, <<KeyA, KeyB>>) /\ Get(input, <<KeyA, KeyB>>) = Padded
    /\ Get(Output, <<KeyA, KeyB>>) = Str(<<" ", "x">>)
    /\ Str(sanitizeString(Padded.s, "html", NoConfig)) = Padded

\* C9 as stated: whatever the mode of the ancestor's entry, the leaf at P
\* stands in the returned tree as P's own entry makes it
C9_ExactWinsAlways ==
    pc = "resolved" =>
        \A segs \in FieldPaths(input) :
            ( /\ HasOwnAndAncestorEntry(segs, options)
              /\ ~ IsCollection(Get(input, segs))
              /\ ~ Listed(Join(segs, Dot), options.blacklist) )
               => /\ Has(Output, segs)
                  /\ Get(Output, segs) = ByOwnEntry(input, segs, options)

\* the calls of onSanitize that report the path
SanitizeEvents(fieldPath) ==
    {i \in 1..Len(log) : log[i].cb = "onSanitize" /\ log[i].field = fieldPath}

\* the calls of any observer that report a path below the path
EventsBelow(fieldPath) ==
    {i \in 1..Len(log) : /\ Len(log[i].field) > Len(fieldPath)
                         /\ SubSeq(log[i].field, 1, Len(fieldPath) + 1) = fieldPath \o Dot}

\* C10: where the resolved entry of a node the walker reaches in scope has
\* mode custom and a function, the returned tree holds at the node what the
\* function returns for the raw value, nothing below the node is processed,
\* and onSanitize is invoked once for the node, with the path, the raw value
\* and the result, also when the result is the value itself
C10_CustomVerbatim ==
    pc = "resolved" =>
        \A segs \in FieldPaths(input) :
            (Visited(input, segs, options) /\ Handling(input, segs, options) = "custom")
               => LET fieldPath == Join(segs, Dot)
                      raw == ValueAt(target, segs, heap)
                      fn == getFieldConfig(fieldPath, options).sanitizer
                      returned == CallSanitizer(fn, raw, heap).ret
                  IN  /\ Has(Output, segs)
                      /\ ValueAt(result, segs, heap) = returned
                      /\ Cardinality(SanitizeEvents(fieldPath)) = 1
                      /\ \A i \in SanitizeEvents(fieldPath) :
                            log[i].a = raw /\ log[i].b = returned
                      /\ EventsBelow(fieldPath) = {}

\* an object holding markup went through the identity function: it is in
\* the returned tree as the input's own object, reported once
C10_Witness ==
    /\ pc = "resolved"
    /\ KeyA \in DOMAIN options.fields
    /\ options.fields[KeyA].sanitizer = "identity"
    /\ Has(input, <<KeyA, KeyB>>) /\ Get(input, <<KeyA, KeyB>>) = Padded
    /\ ValueAt(result, <<KeyA>>, heap) = ValueAt(target, <<KeyA>>, heap)
    /\ Get(Output, <<KeyA, KeyB>>) = Padded
    /\ Cardinality(SanitizeEvents(KeyA)) = 1

-----------------------------------------------------------------------------
(* Strategy each with deep traversal, on bodies that may carry the key     *)
(* "__proto__" (JSON.parse stores it as an own property)                   *)

ShapeOptions ==
    [mode : {"strict", "html"}, maxDepth : {1, DefaultMaxDepth},
     blacklist : {<<>>, <<KeyA>>}, throwOnError : BOOLEAN]

ShapeInputs == Targets(MaxNodes, {Markup, Num(1)}, <<KeyA, ProtoKey>>)

InitShape ==
    \E o \in ShapeOptions, tree \in ShapeInputs :
        InitWith(MergedOptions(o @@ Observed), tree)

SpecShape == InitShape /\ [][Next]_vars

Keys(tree) == {tree.kids[i].k : i \in 1..Len(tree.kids)}

RECURSIVE SameShape(_, _)
SameShape(a, b) ==
    IF IsCollection(a)
    THEN /\ b.t = a.t
         /\ Len(b.kids) = Len(a.kids)
         /\ Keys(b) = Keys(a)
         /\ \A i \in 1..Len(a.kids) :
               SameShape(a.kids[i].v, Child(b, Segment(a, i)))
    ELSE ~ IsCollection(b)

\* C3: with strategy each and deep traversal the returned tree has the keys
\* of the input at every object and the length of the input at every array
C3_ShapePreserved ==
    (pc = "resolved" /\ options.arrays = "each" /\ options.deep)
        => SameShape(input, Output)

-----------------------------------------------------------------------------
(* The default configuration, at several depth bounds *)

DefaultInputs ==
    Targets(MaxNodes, {Markup, Script, Plain, Num(1)}, <<KeyA, KeyB>>)
    \cup {Obj(<<Ent(KeyB, Markup), Ent(KeyA, Chain(k, KeyA, leaf))>>) :
            k \in 1..MaxChain, leaf \in {Markup, Num(1)}}

InitDefault ==
    \E tree \in DefaultInputs, d \in {0, 1, 2, DefaultMaxDepth} :
        InitWith(MergedOptions(Observed @@ [maxDepth |-> d]), tree)

SpecDefault == InitDefault /\ [][Next]_vars

\* C1: under the default configuration the call resolves, and every string
\* leaf within the depth bound is replaced by what the markup-stripping
\* capability returns for it with no tag and no attribute allowed
C1_DefaultStripsStrings ==
    /\ pc # "rejected"
    /\ pc = "resolved" =>
         \A segs \in FieldPaths(input) :
            (Get(input, segs).t = "str" /\ WithinBound(input, segs, options))
                => /\ Has(Output, segs)
                   /\ Get(Output, segs) = Str(StripAll(Get(input, segs).s))

\* a nested script-carrying leaf came out stripped under the default bound,
\* next to an array element that was stripped too
C1_Witness ==
    /\ pc = "resolved"
    /\ options.maxDepth = DefaultMaxDepth
    /\ \E segs \in FieldPaths(input) :
          /\ Len(segs) >= 2
          /\ Get(input, segs) = Script
          /\ Get(Output, segs) = Str(<<"H">>)

-----------------------------------------------------------------------------
(* What the observers are told *)

\* the calls of onSkip that report the path
SkipEvents(fieldPath) ==
    {i \in 1..Len(log) : log[i].cb = "onSkip" /\ log[i].field = fieldPath}

\* the calls of onError that report the path
ErrorEvents(fieldPath) ==
    {i \in 1..Len(log) : log[i].cb = "onError" /\ log[i].field = fieldPath}

\* C11: a node the walker skips because it is out of scope or because its
\* field entry has mode skip is reported to onSkip once, with its dotted
\* path and its own value, and stands unchanged in the returned tree
C11_OnSkipGetsValue ==
    pc = "resolved" =>
        \A segs \in FieldPaths(input) :
            ( /\ Visited(input, segs, options)
              /\ Handling(input, segs, options) \in {"outOfScope", "skip"} )
               => /\ Cardinality(SkipEvents(Join(segs, Dot))) = 1
                  /\ \A i \in SkipEvents(Join(segs, Dot)) :
                        log[i].a = ValueAt(target, segs, heap)
                  /\ ValueAt(result, segs, heap) = ValueAt(target, segs, heap)

\* the node is handed to sanitizeValue and is in scope
InScope(tree, segs, opts) ==
    /\ Visited(tree, segs, opts)
    /\ Handling(tree, segs, opts) # "outOfScope"

\* C12: an in-scope node whose resolved mode is skip, be it from its own
\* entry, an ancestor's entry or the global mode, is reported to onSkip and
\* stands unchanged in the returned tree, with no onSanitize call for it
C12_ResolvedSkipReturnsUnchanged ==
    (pc = "resolved" /\ options.onSkip = "records") =>
        \A segs \in FieldPaths(input) :
            ( /\ InScope(input, segs, options)
              /\ ~ UnderProtoKey(segs)
              /\ ResolvedMode(Join(segs, Dot), options) = "skip" )
               => /\ SkipEvents(Join(segs, Dot)) # {}
                  /\ SanitizeEvents(Join(segs, Dot)) = {}
                  /\ ErrorEvents(Join(segs, Dot)) = {}
                  /\ ValueAt(result, segs, heap) = ValueAt(target, segs, heap)


-----------------------------------------------------------------------------
(* Strings and arrays under each mode and array strategy, with per-field   *)
(* entries on an array and on its first element, and observers that throw  *)

CallbackOptions ==
    [mode : {"strict", "html"}, arrays : {"each", "join", "skip"}]
    \cup [mode : {"skip"}, arrays : {"each", "join"}]
    \cup [arrays : {"each", "join"},
          fields : {KeyA :> FieldConfig("html", NoConfig, "undefined")}]
    \cup [arrays : {"each", "skip"},
          fields : {KeyA :> FieldConfig("skip", NoConfig, "undefined"),
                    KeyA :> FieldConfig("custom", NoConfig, "constant")}]
    \cup [fields : {<<"a", ".", "0">> :> FieldConfig("skip", NoConfig, "undefined"),
                    <<"a", ".", "0">> :> FieldConfig("custom", NoConfig, "trim")}]
    \cup [blacklist : {<< <<"a", ".", "0">> >>}]
    \cup [onSanitize : {"throws"}, arrays : {"each", "join"}]
    \cup [onSkip : {"throws"}, arrays : {"skip"}]

InitCallbacks ==
    \E o \in CallbackOptions,
       tree \in Targets(MaxNodes, {Padded, Markup, Num(1)}, <<KeyA, KeyB>>) :
        InitWith(MergedOptions(o @@ Observed), tree)

SpecCallbacks == InitCallbacks /\ [][Next]_vars

\* the node is a string handed to sanitizeStringValue in strict or html mode
StringLeaf(tree, segs, opts) ==
    /\ Visited(tree, segs, opts)
    /\ Handling(tree, segs, opts) = "string"
    /\ ResolvedMode(Join(segs, Dot), opts) \in {"strict", "html"}

\* what the resolved mode and settings make of the leaf
Transformed(tree, segs, opts) ==
    Str(sanitizeString(Get(tree, segs).s, ResolvedMode(Join(segs, Dot), opts),
                       ResolvedConfig(Join(segs, Dot), opts)))

\* C13: for every string leaf processed in strict or html mode, onSanitize
\* is invoked exactly once when the transformed string differs from the
\* input string and not at all when it is equal; it is given the leaf's
\* dotted field-path, the input string and the transformed string, which is
\* the output at the leaf when the observer returns
C13_OnSanitizeIffChanged ==
    pc = "resolved" =>
        \A segs \in FieldPaths(input) :
            StringLeaf(input, segs, options)
               => IF Transformed(input, segs, options) # Get(input, segs)
                  THEN /\ Cardinality(SanitizeEvents(Join(segs, Dot))) = 1
                       /\ \A i \in SanitizeEvents(Join(segs, Dot)) :
                             /\ log[i].a = Get(input, segs)
                             /\ log[i].b = Transformed(input, segs, options)
                             /\ options.onSanitize = "records"
                                   => log[i].b = ValueAt(result, segs, heap)
                  ELSE SanitizeEvents(Join(segs, Dot)) = {}

\* one call met a leaf that changed, reported once, and a leaf that did
\* not, never reported
C13_Witness ==
    /\ pc = "resolved"
    /\ \E segs \in FieldPaths(input) :
          /\ StringLeaf(input, segs, options)
          /\ Transformed(input, segs, options) # Get(input, segs)
          /\ Cardinality(SanitizeEvents(Join(segs, Dot))) = 1
    /\ \E segs \in FieldPaths(input) :
          /\ StringLeaf(input, segs, options)
          /\ Transformed(input, segs, options) = Get(input, segs)
          /\ SanitizeEvents(Join(segs, Dot)) = {}


\* C14: under the join strategy every array that reaches the array step
\* with a resolved mode other than skip comes out as one string, the
\* resolved mode's transformation of its elements joined with one space;
\* onSanitize is invoked once for the node with the path, the original
\* array and that string, and no observer is called for an element
C14_JoinCollapsesToString ==
    pc = "resolved" =>
        \A segs \in FieldPaths(input) :
            ( /\ Visited(input, segs, options)
              /\ Handling(input, segs, options) = "array:join"
              /\ ResolvedMode(Join(segs, Dot), options) # "skip" )
               => /\ Cardinality(SanitizeEvents(Join(segs, Dot))) = 1
                  /\ EventsBelow(Join(segs, Dot)) = {}
                  /\ \A i \in SanitizeEvents(Join(segs, Dot)) :
                        /\ log[i].a = ValueAt(target, segs, heap)
                        /\ log[i].b =
                              Str(sanitizeString(
                                    JoinFrom(heap[ValueAt(target, segs, heap).n].kids,
                                             1, <<" ">>, heap),
                                    ResolvedMode(Join(segs, Dot), options),
                                    ResolvedConfig(Join(segs, Dot), options)))
                        /\ options.onSanitize = "records"
                              => ValueAt(result, segs, heap) = log[i].b

\* {a: ["<b>x</b>", "<b>x</b>"]} in strict mode came out as {a: "x x"}
C14_Witness ==
    /\ pc = "resolved"
    /\ options.arrays = "join" /\ options.mode = "strict" /\ options.fields = <<>>
    /\ input = Obj(<<Ent(KeyA, Arr(<<Ent(<<>>, Markup), Ent(<<>>, Markup)>>))>>)
    /\ Output = Obj(<<Ent(KeyA, Str(<<"x", " ", "x">>))>>)
    /\ Cardinality(SanitizeEvents(KeyA)) = 1

\* sanitizeValue(item, ctx) for the node at segs, run on its own
Alone(segs) ==
    sanitizeValue(ValueAt(target, segs, Load(input, <<>>).heap),
                  [NewContext(options, Load(input, <<>>).heap)
                      EXCEPT !.path = segs, !.currentDepth = DepthAt(input, segs)])

\* the output at an array node is a new array whose elements are what
\* sanitizing each input element on its own under the path "P.i" gives
MappedEach(segs) ==
    /\ IsArray(ValueAt(result, segs, heap), heap)
    /\ ValueAt(result, segs, heap).n \notin InputCells
    /\ Len(Get(Output, segs).kids) = Len(Get(input, segs).kids)
    /\ \A i \in 1..Len(Get(input, segs).kids) :
          Get(Output, segs \o <<NumberToString(i - 1)>>)
             = Reify(Alone(segs \o <<NumberToString(i - 1)>>).ret,
                     Alone(segs \o <<NumberToString(i - 1)>>).st.heap)

\* C15 (as stated): under the each strategy every in-scope array node comes
\* out as a new array of the same length whose element i is input element i
\* sanitized as the node "P.i"
C15_EveryArrayMapped ==
    (pc = "resolved" /\ options.arrays = "each") =>
        \A segs \in FieldPaths(input) :
            (InScope(input, segs, options) /\ Get(input, segs).t = "arr")
               => MappedEach(segs)

\* C15: under the each strategy every array that reaches the array step
\* (no field entry with mode skip, or with mode custom and a function,
\* resolves for it) comes out as a new array of the same length whose
\* element i is input element i sanitized as the node "P.i", whatever the
\* other elements are
C15_EachMapsElements ==
    pc = "resolved" =>
        \A segs \in FieldPaths(input) :
            ( /\ Visited(input, segs, options)
              /\ Handling(input, segs, options) = "array:each" )
               => MappedEach(segs)

\* an array of two strings was mapped while a field entry for "a.0" set
\* the first element's policy apart from the second's
C15_Witness ==
    /\ pc = "resolved"
    /\ <<"a", ".", "0">> \in DOMAIN options.fields
    /\ Has(input, <<KeyA>>)
    /\ Visited(input, <<KeyA>>, options)
    /\ Handling(input, <<KeyA>>, options) = "array:each"
    /\ Get(input, <<KeyA>>).kids = <<Ent(<<>>, Padded), Ent(<<>>, Padded)>>
    /\ Get(Output, <<KeyA, <<"0">>>>) # Get(Output, <<KeyA, <<"1">>>>)

\* the array at segs came back as it was and the observer was told of it
\* once, with the array
SkippedWhole(segs) ==
    /\ ValueAt(result, segs, heap) = ValueAt(target, segs, heap)
    /\ Get(Output, segs) = Get(input, segs)
    /\ EventsBelow(Join(segs, Dot)) = {}
    /\ Cardinality(SkipEvents(Join(segs, Dot))) = 1
    /\ \A i \in SkipEvents(Join(segs, Dot)) :
          log[i].a = ValueAt(target, segs, heap)

\* C16 (as stated): under the skip strategy every in-scope array node is
\* returned unchanged and onSkip is invoked once for it with the path and
\* the array
C16_EveryArraySkipped ==
    (pc = "resolved" /\ options.arrays = "skip") =>
        \A segs \in FieldPaths(input) :
            (InScope(input, segs, options) /\ Get(input, segs).t = "arr")
               => SkippedWhole(segs)

\* C16: under the skip strategy every array that reaches the array step
\* (no field entry with mode skip, or with mode custom and a function,
\* resolves for it) is returned unchanged, no element transformed at any
\* level, and onSkip is invoked once for it with the path and the array
C16_SkipReturnsArray ==
    pc = "resolved" =>
        \A segs \in FieldPaths(input) :
            ( /\ Visited(input, segs, options)
              /\ Handling(input, segs, options) = "array:skip" )
               => SkippedWhole(segs)

\* an array holding markup, nested in an object, was passed over
C16_Witness ==
    /\ pc = "resolved"
    /\ \E segs \in FieldPaths(input) :
          /\ Len(segs) = 2
          /\ Visited(input, segs, options)
          /\ Handling(input, segs, options) = "array:skip"
          /\ Get(input, segs).kids = <<Ent(<<>>, Padded)>>
          /\ SkippedWhole(segs)


-----------------------------------------------------------------------------
(* Failures: objects at and past a small depth bound, and field functions  *)
(* that throw an Error or a string, on a property, a nested property and   *)
(* an array element; contained, and in a few configurations propagated     *)

InitErrors ==
    \E o \in [maxDepth : {0, 1, 2}, mode : {"strict", "html"}]
             \cup [fields : {p :> FieldConfig("custom", NoConfig, fn) :
                                p \in {KeyA, <<"a", ".", "a">>, <<"a", ".", "0">>},
                                fn \in {"throwError", "throwString"}}]
             \cup [maxDepth : {1},
                   fields : {KeyB :> FieldConfig("custom", NoConfig, "throwError")}]
             \cup [maxDepth : {1}, throwOnError : {TRUE},
                   fields : {<<>>, KeyA :> FieldConfig("custom", NoConfig, "throwError")}],
       tree \in Targets(MaxNodes, {Padded, Num(1)}, <<KeyA, KeyB>>) :
        InitWith(MergedOptions(o @@ Observed), tree)

SpecErrors == InitErrors /\ [][Next]_vars

\* the failure err at the node segs was contained: the observer was told
\* once, of err and the node's path, the node came back as it was with
\* nothing below it touched, and each sibling came out as it does alone
ContainedAt(segs, err) ==
    /\ Cardinality(ErrorEvents(Join(segs, Dot))) = 1
    /\ \A i \in ErrorEvents(Join(segs, Dot)) : log[i].a = err
    /\ SanitizeEvents(Join(segs, Dot)) = {}
    /\ EventsBelow(Join(segs, Dot)) = {}
    /\ ValueAt(result, segs, heap) = ValueAt(target, segs, heap)
    /\ Get(Output, segs) = Get(input, segs)
    /\ \A sib \in FieldPaths(input) :
          ( /\ Len(sib) = Len(segs) /\ sib # segs
            /\ Prefix(sib, Len(sib) - 1) = Prefix(segs, Len(segs) - 1) )
             => Get(Output, sib) = Reify(Alone(sib).ret, Alone(sib).st.heap)

\* every string the walker is to transform came out transformed
FullySanitized ==
    \A segs \in FieldPaths(input) :
        StringLeaf(input, segs, options)
           => Get(Output, segs) = Transformed(input, segs, options)

\* C17: with deep traversal and containment, an object that reaches the
\* object step while the depth counter is at or past maxDepth has onError
\* invoked once with the depth error and its path and comes back
\* unmodified; its siblings and every string within the bound are
\* sanitized all the same, and the call resolves
C17_DepthErrorContained ==
    ( /\ pc # "ready" /\ ~ options.throwOnError /\ options.deep
      /\ \E segs \in FieldPaths(input) :
            /\ Visited(input, segs, options)
            /\ Handling(input, segs, options) = "tooDeep" )
       => /\ pc = "resolved"
          /\ FullySanitized
          /\ \A segs \in FieldPaths(input) :
                ( /\ Visited(input, segs, options)
                  /\ Handling(input, segs, options) = "tooDeep" )
                   => ContainedAt(segs,
                                  DepthError(options.maxDepth, Join(segs, Dot)))

\* under maxDepth 1, {a: {a: {...}, b: " <b>x</b>"}} kept a.a and
\* sanitized a.b
C17_Witness ==
    /\ pc = "resolved" /\ options.maxDepth = 1
    /\ Has(input, <<KeyA, KeyA>>) /\ Has(input, <<KeyA, KeyB>>)
    /\ Handling(input, <<KeyA, KeyA>>, options) = "tooDeep"
    /\ Get(input, <<KeyA, KeyB>>) = Padded
    /\ Get(Output, <<KeyA, KeyB>>) # Padded
    /\ Cardinality(ErrorEvents(<<"a", ".", "a">>)) = 1

\* the field function resolved for the node throws
ThrowsAt(segs) ==
    /\ Visited(input, segs, options)
    /\ Handling(input, segs, options) = "custom"
    /\ getFieldConfig(Join(segs, Dot), options).sanitizer
          \in {"throwError", "throwString"}

\* C18: with containment, when the custom function of the node at P throws,
\* onError is invoked once with the error (an Error made of the thrown
\* value when that is no Error) and P, the output at P is the original
\* value, siblings and every other string are sanitized as without the
\* failure, and the call resolves
C18_CustomFailureContained ==
    ( /\ pc # "ready" /\ ~ options.throwOnError
      /\ \E segs \in FieldPaths(input) : ThrowsAt(segs) )
       => /\ pc = "resolved"
          /\ FullySanitized
          /\ \A segs \in FieldPaths(input) :
                ThrowsAt(segs)
                   => ContainedAt(segs, Error(<<"bad input">>))

\* the function for the first element of an array threw a string; the
\* second element was sanitized
C18_Witness ==
    /\ pc = "resolved"
    /\ Has(input, <<KeyA, <<"0">>>>) /\ Has(input, <<KeyA, <<"1">>>>)
    /\ ThrowsAt(<<KeyA, <<"0">>>>)
    /\ options.fields[<<"a", ".", "0">>].sanitizer = "throwString"
    /\ Get(input, <<KeyA, <<"1">>>>) = Padded
    /\ Get(Output, <<KeyA, <<"1">>>>) = Str(<<" ", "x">>)
    /\ Get(Output, <<KeyA, <<"0">>>>) = Get(input, <<KeyA, <<"0">>>>)


-----------------------------------------------------------------------------
(* The middleware: one request through the handler sanitizer() returns.    *)
(* pc walks "body", "query", "params", "headers", then "next" and          *)
(* "returned"; a failure inside the try block leads through "catch" to     *)
(* "next" or to "threw".                                                   *)

TargetNames == <<"body", "query", "params", "headers">>

ContentTypeKey == <<"content-type">>
Json == Str(<<"application/json">>)
Text == Str(<<"text/plain">>)

\* c.req.header("content-type") || ""
ContentType ==
    IF HasChild(input.headers, ContentTypeKey)
    THEN Child(input.headers, ContentTypeKey) ELSE Str(<<>>)

\* mutant: the body is decoded whatever the content type says
Eligible_anyContentType(name) ==
    /\ \E i \in 1..Len(options.targets) : options.targets[i] = name
    /\ IF name = "body"
       THEN isPlainObject(request.body, heap)
       ELSE Len(heap[request[name].n].kids) > 0

\* the guards under which the handler hands a target to sanitizeTarget
Eligible(name) ==
    /\ \E i \in 1..Len(options.targets) : options.targets[i] = name
    /\ IF name = "body"
       THEN /\ \E i \in 1..Len(ContentType.s) : ContentType.s[i] = Json.s[1]
            /\ isPlainObject(request.body, heap)
       ELSE Len(heap[request[name].n].kids) > 0

\* const sanitized = await sanitizeTarget(...); c.req.__sanitizedX = sanitized
Stored(name, after, r) ==
    /\ target' = request[name]
    /\ heap' = r.st.heap
    /\ log' = log \o r.st.log
    /\ ctx' = [currentDepth |-> r.st.currentDepth, path |-> r.st.path]
    /\ IF Raised(r.st)
       THEN pc' = "catch" /\ thrown' = r.st.exc /\ stored' = stored
       ELSE pc' = after /\ thrown' = thrown
            /\ stored' = [stored EXCEPT ![name] = r.ret]

\* if (targets.includes(name)) { ... }
Sanitize(name, after) ==
    /\ pc = name
    /\ IF Eligible(name)
       THEN Stored(name, after, sanitizeTarget(request[name], options, heap))
       ELSE pc' = after /\ UNCHANGED <<target, heap, log, ctx, thrown, stored>>
    /\ UNCHANGED <<options, input, result, lookup, request, nextCalls, got, other>>

\* mutant: the handler's catch contains every failure
Catch_contains ==
    /\ pc = "catch"
    /\ LET st == Invoke([NewContext(options, heap) EXCEPT !.log = log], "onError",
                        <<"middleware">>, NormalizeError(thrown, heap), Undefined)
       IN  /\ log' = st.log
           /\ IF Raised(st) THEN pc' = "threw" /\ thrown' = st.exc
              ELSE pc' = "next" /\ thrown' = thrown
    /\ UNCHANGED <<options, input, heap, target, result, ctx, lookup, request,
                   stored, nextCalls, got, other>>

\* catch (error) { ... } around the four targets
Catch ==
    /\ pc = "catch"
    /\ IF options.throwOnError
       THEN pc' = "threw" /\ thrown' = NormalizeError(thrown, heap) /\ log' = log
       ELSE LET st == Invoke([NewContext(options, heap) EXCEPT !.log = log],
                             "onError", <<"middleware">>,
                             NormalizeError(thrown, heap), Undefined)
            IN  /\ log' = st.log
                /\ IF Raised(st) THEN pc' = "threw" /\ thrown' = st.exc
                   ELSE pc' = "next" /\ thrown' = thrown
    /\ UNCHANGED <<options, input, heap, target, result, ctx, lookup, request,
                   stored, nextCalls, got, other>>

\* await next()
CallNext ==
    /\ pc = "next"
    /\ nextCalls' = nextCalls + 1
    /\ pc' = "returned"
    /\ UNCHANGED <<options, input, heap, target, result, thrown, ctx, log, lookup,
                   request, stored, got, other>>

\* the request as the handler reads it: c.req.json(), c.req.query(),
\* c.req.param() and the headers, decoded onto one heap in that order
RECURSIVE Decode(_, _, _, _)
Decode(trees, i, h, refs) ==
    IF i > Len(TargetNames) THEN [heap |-> h, request |-> refs]
    ELSE Decode(trees, i + 1, Load(trees[TargetNames[i]], h).heap,
                [refs EXCEPT ![TargetNames[i]] = Load(trees[TargetNames[i]], h).ret])

\* app.use(sanitizer(o)) and the arrival of a request: bodies that are an
\* object, an array, a string or unreadable, with or without a JSON content
\* type, and flat query, path parameters and headers; failures by a
\* throwing field function and by maxDepth 0, contained and propagated
Arrive ==
    /\ pc = "idle"
    /\ \E o \in [targets : {TargetNames, <<"query", "headers">>},
                 throwOnError : BOOLEAN,
                 fields : {<<>>,
                           KeyA :> FieldConfig("custom", NoConfig, "throwError"),
                           <<"a", ".", "a">> :> FieldConfig("custom", NoConfig, "throwString")}]
                \cup [throwOnError : BOOLEAN, maxDepth : {0}]
                \cup [targets : {TargetNames}, onError : {"throws"}, maxDepth : {0}],
          trees \in [body : Targets(MaxNodes - 1, {Padded}, <<KeyA>>)
                            \cup {Undefined, Null, Arr(<<>>), Padded},
                     query : {Obj(<<>>), Obj(<<Ent(KeyA, Padded)>>)},
                     params : {Obj(<<>>), Obj(<<Ent(KeyB, Padded)>>)},
                     headers : {Obj(<<>>),
                                Obj(<<Ent(ContentTypeKey, Json)>>),
                                Obj(<<Ent(KeyA, Markup), Ent(ContentTypeKey, Text)>>)}] :
        /\ options' = MergedOptions(o @@ Observed)
        /\ input' = trees
        /\ heap' = Decode(trees, 1, <<>>, trees).heap
        /\ request' = Decode(trees, 1, <<>>, trees).request
    /\ pc' = "body"
    /\ got' = [name |-> "none", value |-> Undefined]
    /\ UNCHANGED <<target, result, thrown, ctx, log, lookup, stored, nextCalls, other>>

\* value || null: the values the language takes for false
Truthy(v) ==
    ~ \/ v.t \in {"undefined", "null"}
      \/ v.t = "bool" /\ v.n = 0
      \/ v.t = "num" /\ v.n = 0
      \/ v.t = "str" /\ v.s = <<>>

\* mutant: a result without keys is reported as absent
getSanitized_nonEmpty(name) ==
    IF stored[name].t = "ref" /\ heap[stored[name].n].kids # <<>>
    THEN stored[name] ELSE Null

\* getSanitizedBody, getSanitizedQuery, getSanitizedParams, getSanitizedHeaders
getSanitized(name) ==
    IF Truthy(stored[name]) THEN stored[name] ELSE Null

\* a route handler reads one of the results: where no middleware ran, or
\* downstream of the middleware, inside next()
GetSanitized ==
    /\ pc \in {"idle", "next"}
    /\ \E name \in {"body", "query", "params", "headers"} :
          got' = [name |-> name, value |-> getSanitized(name)]
    /\ UNCHANGED <<options, input, heap, target, pc, result, thrown, ctx, log,
                   lookup, request, stored, nextCalls, other>>

\* the steps of the handler once it has been called
Handle ==
    \/ Sanitize("body", "query")
    \/ Sanitize("query", "params")
    \/ Sanitize("params", "headers")
    \/ Sanitize("headers", "next")
    \/ Catch
    \/ CallNext

NextMiddleware == Arrive \/ Handle \/ GetSanitized

\* no middleware is installed yet and no request has arrived
InitMiddleware ==
    /\ options = MergedOptions(Observed)
    /\ input = [body |-> Undefined, query |-> Obj(<<>>), params |-> Obj(<<>>),
                headers |-> Obj(<<>>)]
    /\ heap = <<>>
    /\ request = <<>>
    /\ stored = [name \in {"body", "query", "params", "headers"} |-> Undefined]
    /\ nextCalls = 0
    /\ got = [name |-> "none", value |-> Undefined]
    /\ other = <<>>
    /\ pc = "idle"
    /\ target = Undefined
    /\ result = Undefined
    /\ thrown = NoExc
    /\ ctx = [currentDepth |-> 0, path |-> <<>>]
    /\ log = <<>>
    /\ lookup = [fieldPath |-> <<>>, fieldConfig |-> NullFieldConfig, made |-> FALSE]

SpecMiddleware == InitMiddleware /\ [][NextMiddleware]_vars

\* the handler leaves the point it is at: at each of these points exactly
\* one disjunct of Handle can be taken, and taking it moves pc
Resumes ==
    /\ pc \in {"body", "query", "params", "headers", "catch", "next"}
    /\ pc' \in {"query", "params", "headers", "catch", "next", "returned", "threw"}
    /\ pc' # pc

\* an async function's awaits resume once their promise has settled, and
\* every promise here settles: a handler that was called does not stay at
\* a point it can leave
FairMiddleware == SpecMiddleware /\ WF_pc(Resumes)


\* traversing the tree meets an object at the depth bound or a field
\* function that throws
FailuresIn(tree) ==
    {segs \in FieldPaths(tree) :
        /\ Visited(tree, segs, options)
        /\ \/ options.deep /\ Handling(tree, segs, options) = "tooDeep"
           \/ /\ Handling(tree, segs, options) = "custom"
              /\ getFieldConfig(Join(segs, Dot), options).sanitizer
                    \in {"throwError", "throwString"}}

\* the errors those failures raise
ErrorsIn(tree) ==
    {IF Handling(tree, segs, options) = "tooDeep"
     THEN DepthError(options.maxDepth, Join(segs, Dot))
     ELSE Error(<<"bad input">>) : segs \in FailuresIn(tree)}

\* target i is handed to sanitizeTarget and its traversal fails
FailsAt(i) ==
    /\ Eligible(TargetNames[i])
    /\ FailuresIn(input[TargetNames[i]]) # {}

\* C19: with throwOnError true, a failure while traversing a target makes
\* the call reject with the failure's error and the middleware throw it:
\* the handler never goes on to a later target or to next(), nothing is
\* stored for the failing target or any after it, and onError is never
\* invoked
C19_FailurePropagates ==
    options.throwOnError =>
        /\ \A i \in 1..Len(log) : log[i].cb # "onError"
        /\ pc \in {"catch", "threw"}
              => /\ \E i \in 1..4 : FailsAt(i) /\ target = request[TargetNames[i]]
                 /\ \A i \in 1..4 :
                       (FailsAt(i) /\ target = request[TargetNames[i]])
                          => thrown \in ErrorsIn(input[TargetNames[i]])
        /\ \A i \in 1..4 :
              FailsAt(i)
                 => /\ pc \in {TargetNames[j] : j \in 1..i} \cup {"catch", "threw"}
                    /\ nextCalls = 0
                    /\ \A j \in i..4 : stored[TargetNames[j]] = Undefined

\* the body was stored, the query failed, and the handler threw the error
\* without calling next()
C19_Witness ==
    /\ options.throwOnError
    /\ pc = "threw"
    /\ stored.body # Undefined
    /\ FailsAt(2)
    /\ thrown = Error(<<"bad input">>)
    /\ nextCalls = 0

\* every target the handler hands to sanitizeTarget has its result stored
AllProcessed ==
    \A i \in 1..4 : Eligible(TargetNames[i]) => stored[TargetNames[i]] # Undefined

\* C20: with throwOnError false and observers that return, whatever the
\* field functions do a handler that was called comes to return having
\* called next() exactly once, after every requested target was processed,
\* and without having thrown
C20_NextCalledOnce ==
    (pc = "body" /\ ~ options.throwOnError /\ options.onError # "throws")
       ~> (pc = "returned" /\ nextCalls = 1 /\ AllProcessed)

\* next() was called after a field function had thrown in the body and the
\* failure had been reported
C20_Witness ==
    /\ ~ options.throwOnError
    /\ pc = "returned" /\ nextCalls = 1
    /\ FailsAt(1)
    /\ stored.body # Undefined
    /\ \E i \in 1..Len(log) : log[i].cb = "onError" /\ log[i].a = Error(<<"bad input">>)


\* C21: getSanitized<T> returns null exactly when no result is stored for T
\* on the request (T not requested, skipped, or no middleware ran) and the
\* stored mapping otherwise, an empty one included
C21_NullIffNotStored ==
    got.name # "none"
       => /\ got.value = Null <=> stored[got.name] = Undefined
          /\ stored[got.name] # Undefined => got.value = stored[got.name]

\* the body {} was sanitized and read back as an object without keys while
\* the query, not requested, has nothing stored
C21_Witness ==
    /\ got.name = "body"
    /\ got.value.t = "ref"
    /\ Reify(got.value, heap) = Obj(<<>>)
    /\ stored.query = Undefined


\* C22: a requested body that is no plain mapping (content type not JSON,
\* unreadable, or an array, a string or null) is passed over: nothing is
\* stored for it, sanitizeTarget is not called and no observer is told, the
\* handler goes on to the query whatever throwOnError says, throws only
\* for a failure in a later target, and otherwise processes every other
\* target and calls next() once
C22_MalformedBodySkipped ==
    ( /\ pc # "idle"
      /\ \E i \in 1..Len(options.targets) : options.targets[i] = "body"
      /\ \/ input.body.t # "obj"
         \/ \A i \in 1..Len(ContentType.s) : ContentType.s[i] # "application/json" )
       => /\ stored.body = Undefined
          /\ pc = "query" => (log = <<>> /\ thrown = NoExc /\ target = Undefined)
          /\ pc \in {"catch", "threw"}
                => \E i \in 2..4 : FailsAt(i) /\ target = request[TargetNames[i]]
          /\ pc \in {"next", "returned"} => AllProcessed
          /\ pc = "returned" => nextCalls = 1

\* with throwOnError true a body that is an array was passed over, the
\* query was sanitized and next() was called
C22_Witness ==
    /\ pc = "returned" /\ nextCalls = 1
    /\ options.throwOnError
    /\ \E i \in 1..Len(options.targets) : options.targets[i] = "body"
    /\ input.body = Arr(<<>>)
    /\ ContentType = Json
    /\ stored.body = Undefined
    /\ stored.query # Undefined


-----------------------------------------------------------------------------
(* Two requests through one middleware instance.  A handler runs from one  *)
(* await to the next without interruption; at an await the other request's *)
(* handler may run.  The request in the variables is the one running, the  *)
(* one in `other` is parked.                                               *)

\* the event loop turns to the other handler
Switch ==
    /\ other.pc \notin {"returned", "threw"}
    /\ input' = other.input /\ request' = other.request /\ stored' = other.stored
    /\ pc' = other.pc /\ nextCalls' = other.nextCalls /\ thrown' = other.thrown
    /\ target' = other.target
    /\ other' = [input |-> input, request |-> request, stored |-> stored, pc |-> pc,
                 nextCalls |-> nextCalls, thrown |-> thrown, target |-> target]
    /\ UNCHANGED <<options, heap, result, ctx, log, lookup, got>>

NextConcurrent ==
    \/ (Handle /\ UNCHANGED <<got, other>>)
    \/ Switch

\* one instance, contained or propagating, with a field function that
\* throws for "a"; both handlers have been called and neither has run yet
InitConcurrent ==
    \E o \in [targets : {TargetNames}, throwOnError : BOOLEAN,
              fields : {KeyA :> FieldConfig("custom", NoConfig, "throwError")}],
       first \in [body : Targets(MaxNodes - 1, {Padded}, <<KeyA>>),
                  query : {Obj(<<Ent(KeyA, Padded)>>)},
                  params : {Obj(<<Ent(KeyB, Padded)>>)},
                  headers : {Obj(<<Ent(ContentTypeKey, Json)>>)}],
       second \in [body : {Obj(<<Ent(KeyB, Padded)>>),
                           Obj(<<Ent(KeyB, Obj(<<Ent(KeyB, Markup)>>))>>)},
                   query : {Obj(<<Ent(KeyB, Markup)>>)},
                   params : {Obj(<<>>)},
                   headers : {Obj(<<Ent(ContentTypeKey, Json)>>)}] :
        /\ options = MergedOptions(o @@ Observed)
        /\ input = first
        /\ request = Decode(first, 1, <<>>, first).request
        /\ heap = Decode(second, 1, Decode(first, 1, <<>>, first).heap, second).heap
        /\ other = [input |-> second,
                    request |-> Decode(second, 1, Decode(first, 1, <<>>, first).heap,
                                       second).request,
                    stored |-> [name \in {"body", "query", "params", "headers"} |-> Undefined],
                    pc |-> "body", nextCalls |-> 0, thrown |-> NoExc,
                    target |-> Undefined]
        /\ stored = [name \in {"body", "query", "params", "headers"} |-> Undefined]
        /\ nextCalls = 0
        /\ got = [name |-> "none", value |-> Undefined]
        /\ pc = "body"
        /\ target = Undefined
        /\ result = Undefined
        /\ thrown = NoExc
        /\ ctx = [currentDepth |-> 0, path |-> <<>>]
        /\ log = <<>>
        /\ lookup = [fieldPath |-> <<>>, fieldConfig |-> NullFieldConfig, made |-> FALSE]

SpecConcurrent == InitConcurrent /\ [][NextConcurrent]_vars

\* a target of a request processed with nothing else around: decoded onto
\* an empty heap and walked with a context of its own
AloneRun(tree) ==
    TargetFrom(Load(tree, <<>>).heap[Load(tree, <<>>).ret.n].kids, 1,
               Len(Load(tree, <<>>).heap) + 1,
               NewContext(options, Append(Load(tree, <<>>).heap, Cell("obj", <<>>))))

\* the handler, alone, would hand target i of these trees to sanitizeTarget
AloneEligible(trees, i) ==
    IF i = 1
    THEN /\ trees.body.t = "obj"
         /\ HasChild(trees.headers, ContentTypeKey)
         /\ Child(trees.headers, ContentTypeKey) = Json
    ELSE trees[TargetNames[i]].kids # <<>>

AloneFails(trees, i) ==
    AloneEligible(trees, i) /\ Raised(AloneRun(trees[TargetNames[i]]).st)

\* the request r stands as it would if it were the only one
AsAlone(r) ==
    /\ \A i \in 1..4 :
          r.stored[TargetNames[i]] # Undefined
             => /\ AloneEligible(r.input, i)
                /\ ~ AloneFails(r.input, i)
                /\ Reify(r.stored[TargetNames[i]], heap)
                      = Reify(AloneRun(r.input[TargetNames[i]]).ret,
                              AloneRun(r.input[TargetNames[i]]).st.heap)
    /\ r.pc \in {"next", "returned"}
          => \A i \in 1..4 :
                AloneEligible(r.input, i) => r.stored[TargetNames[i]] # Undefined
    /\ r.pc \in {"catch", "threw"}
          => \E i \in 1..4 :
                /\ AloneFails(r.input, i)
                /\ r.thrown = AloneRun(r.input[TargetNames[i]]).st.exc
                /\ \A j \in 1..(i - 1) :
                      AloneEligible(r.input, j) => r.stored[TargetNames[j]] # Undefined
                /\ \A j \in i..4 : r.stored[TargetNames[j]] = Undefined

\* C23: however the steps of two requests through one middleware instance
\* interleave, each call of sanitizeTarget starts on a context of its own
\* and ends with depth and path as it would alone, and what is stored for
\* each request, or thrown for it, is what processing that request alone
\* gives
C23_RequestsIsolated ==
    /\ AsAlone(other)
    /\ AsAlone([input |-> input, stored |-> stored, pc |-> pc, thrown |-> thrown])

\* both requests are through: the first threw at its body, leaving its
\* path behind, and a call for the second started afresh after that
C23_Witness ==
    /\ pc = "returned" /\ other.pc = "threw"
    /\ options.throwOnError
    /\ AloneFails(other.input, 1)
    /\ Reify(stored.body, heap) = Obj(<<Ent(KeyB, Str(<<" ", "x">>))>>)
    /\ stored.query # Undefined
    /\ ctx.path = <<>>


-----------------------------------------------------------------------------
(* Deep nesting: one leaf under a column of objects and arrays, walked     *)
(* with small depth bounds and failures contained                          *)

\* {a: ...} for "obj" and [...] for "arr", outermost first
RECURSIVE Nest(_, _)
Nest(shape, leaf) ==
    IF shape = <<>> THEN leaf
    ELSE IF Head(shape) = "obj" THEN Obj(<<Ent(KeyA, Nest(Tail(shape), leaf))>>)
    ELSE Arr(<<Ent(<<>>, Nest(Tail(shape), leaf))>>)

InitDepth ==
    \E shape \in UNION {[1..k -> {"obj", "arr"}] : k \in 0..MaxChain},
       d \in 0..2 :
        InitWith(MergedOptions(Observed @@ [maxDepth |-> d]),
                 Obj(<<Ent(KeyA, Nest(shape, Markup))>>))

SpecDepth == InitDepth /\ [][Next]_vars

\* the walker came to the string leaf at the node path: it changed it
Reached(segs) ==
    /\ Get(input, segs).t = "str"
    /\ Has(Output, segs)
    /\ Get(Output, segs) # Get(input, segs)

\* C24: with deep traversal and failures contained the call ends and
\* resolves on every tree, and a node the walker reaches has at most
\* maxDepth nested levels, objects or arrays, between the target and itself
C24_DescentBounded ==
    /\ pc # "rejected"
    /\ pc = "resolved"
          => \A segs \in FieldPaths(input) :
                Reached(segs) => Len(segs) - 1 <= options.maxDepth

\* C24, the part the walker keeps: the call ends and resolves, and a node
\* it reaches has at most maxDepth objects between the target and itself
C24_ObjectLevelsBounded ==
    /\ pc # "rejected"
    /\ pc = "resolved"
          => \A segs \in FieldPaths(input) :
                Reached(segs) => DepthAt(input, segs) <= options.maxDepth

\* a leaf five arrays down is stripped under maxDepth 0
C24_Witness ==
    /\ pc = "resolved"
    /\ options.maxDepth = 0
    /\ input = Obj(<<Ent(KeyA, Nest([i \in 1..MaxChain |-> "arr"], Markup))>>)
    /\ \E segs \in FieldPaths(input) : Len(segs) = MaxChain + 1 /\ Reached(segs)
    /\ log # <<>>
    /\ \A i \in 1..Len(log) : log[i].cb = "onSanitize"


-----------------------------------------------------------------------------
(* The order of the observers' calls *)

\* where the child named seg stands among the children of the node
PositionIn(tree, seg) ==
    CHOOSE i \in 1..Len(tree.kids) : Segment(tree, i) = seg

\* p lies in the subtree of a child that stands before the child whose
\* subtree holds q, both children of one node
SiblingBefore(p, q) ==
    \E k \in 1..Len(p) :
        /\ k <= Len(q)
        /\ Prefix(p, k - 1) = Prefix(q, k - 1)
        /\ PositionIn(Get(input, Prefix(p, k - 1)), p[k])
              < PositionIn(Get(input, Prefix(q, k - 1)), q[k])

\* C25: within one call every observer call reports a node of the input,
\* and for two children a before b of one node (keys in the mapping's
\* order, elements in index order) every call of onSanitize, onSkip or
\* onError for a node in a's subtree comes before every call for a node in
\* b's subtree
C25_CallbacksInTraversalOrder ==
    pc \in {"resolved", "rejected"}
       => /\ \A i \in 1..Len(log) :
                \E p \in FieldPaths(input) : log[i].field = Join(p, Dot)
          /\ \A i, j \in 1..Len(log) :
                \A p, q \in FieldPaths(input) :
                    ( /\ log[i].field = Join(p, Dot)
                      /\ log[j].field = Join(q, Dot)
                      /\ SiblingBefore(p, q) ) => i < j

\* the array at a was skipped and reported before the string at b was
\* transformed and reported
C25_Witness ==
    /\ pc = "resolved"
    /\ options.arrays = "skip"
    /\ Has(input, <<KeyA>>)
    /\ Get(input, <<KeyA>>).t = "arr"
    /\ Len(log) = 2
    /\ log[1].cb = "onSkip" /\ log[1].field = KeyA
    /\ log[2].cb = "onSanitize" /\ log[2].field = KeyB


-----------------------------------------------------------------------------
(* Observers that throw *)

\* C26: the tree the call returns is the tree it returns with no observer
\* supplied, whatever the observers do; an onSanitize that throws on a
\* string leaf does not leave the leaf unsanitized
C26_ObserversLeaveOutputAlone ==
    /\ pc # "rejected"
    /\ pc = "resolved"
          => Output = OutputUnder([options EXCEPT !.onSanitize = "undefined",
                                                  !.onSkip = "undefined",
                                                  !.onError = "undefined"]).tree

\* onSanitize threw at the leaf a: the markup came back as it went in and
\* onError was told
C26_Witness ==
    /\ pc = "resolved"
    /\ options.onSanitize = "throws"
    /\ options.mode = "strict"
    /\ input = Obj(<<Ent(KeyA, Markup)>>)
    /\ Output = input
    /\ Len(log) = 2
    /\ log[1].cb = "onSanitize" /\ log[1].b = Str(<<"x">>)
    /\ log[2].cb = "onError" /\ log[2].field = KeyA


-----------------------------------------------------------------------------
(* Deep traversal disabled, with and without scope lists and field         *)
(* entries, the depth bound at 0 and failures propagating                  *)

InitDeep ==
    \E o \in [deep : {FALSE}, arrays : {"each", "join", "skip"}, mode : {"strict", "html"}]
             \cup [deep : {FALSE}, maxDepth : {0}, throwOnError : BOOLEAN]
             \cup [deep : {FALSE}, blacklist : {<<KeyA>>, << <<"a", ".", "0">> >>}]
             \cup [deep : {FALSE},
                   fields : {KeyA :> FieldConfig("skip", NoConfig, "undefined"),
                             KeyA :> FieldConfig("custom", NoConfig, "constant")}],
       tree \in Targets(MaxNodes, {Markup, Num(1)}, <<KeyA, KeyB>>) :
        InitWith(MergedOptions(o @@ Observed), tree)

SpecDeep == InitDeep /\ [][Next]_vars

\* the node came back as the value it was, and no observer heard of it or
\* of anything below it
PassedThrough(segs) ==
    /\ Has(Output, segs)
    /\ Get(Output, segs) = Get(input, segs)
    /\ ValueAt(result, segs, heap) = ValueAt(target, segs, heap)
    /\ \A i \in 1..Len(log) : log[i].field # Join(segs, Dot)
    /\ EventsBelow(Join(segs, Dot)) = {}

\* the string came back as its resolved mode makes it
StringTransformed(segs) ==
    /\ Has(Output, segs)
    /\ Get(Output, segs) = Transformed(input, segs, options)

\* C27 as stated, for arrays that are mapped: with deep false every plain
\* object found at a top-level key or inside an array is passed through
\* unchanged with no callback and no depth error is raised, while the
\* top-level strings and strings in arrays that are sanitized in strict or
\* html mode are transformed
C27_ShallowPassesEveryObject ==
    (~ options.deep /\ options.arrays = "each")
       => /\ pc # "rejected"
          /\ \A i \in 1..Len(log) : log[i].cb # "onError"
          /\ pc = "resolved"
                => \A segs \in FieldPaths(input) :
                      (\A k \in 1..(Len(segs) - 1) :
                            Get(input, Prefix(segs, k)).t = "arr")
                         => /\ Get(input, segs).t = "obj" => PassedThrough(segs)
                            /\ StringLeaf(input, segs, options)
                                  => StringTransformed(segs)

\* C27: with deep false every plain object the walker reaches, at a
\* top-level key or as an element of mapped arrays, in scope and with no
\* entry of mode skip or of mode custom with a function resolving for it, is
\* passed through unchanged with no callback for it or below it; no depth
\* error is raised; and the strings it reaches so are transformed
C27_ShallowPassesObjects ==
    ~ options.deep
       => /\ pc # "rejected"
          /\ \A i \in 1..Len(log) : log[i].cb # "onError"
          /\ pc = "resolved"
                => \A segs \in FieldPaths(input) :
                      Visited(input, segs, options)
                         => /\ ( /\ Get(input, segs).t = "obj"
                                 /\ Handling(input, segs, options) = "other" )
                                  => PassedThrough(segs)
                            /\ StringLeaf(input, segs, options)
                                  => StringTransformed(segs)

\* under depth bound 0 the object at a and the object in the array at b came
\* back untouched, markup and all, and the string beside it was stripped
C27_Witness ==
    /\ pc = "resolved"
    /\ ~ options.deep /\ options.maxDepth = 0
    /\ input = Obj(<<Ent(KeyA, Obj(<<Ent(KeyA, Markup)>>)), Ent(KeyB, Markup)>>)
    /\ Output = Obj(<<Ent(KeyA, Obj(<<Ent(KeyA, Markup)>>)), Ent(KeyB, Str(<<"x">>))>>)
    /\ Len(log) = 1


-----------------------------------------------------------------------------
(* The traversal context during and after a call *)

\* the contexts sanitizeValue found on entry, in order, during the call
Steps ==
    sanitizeTarget(target, options, SubSeq(heap, 1, Len(Load(input, <<>>).heap))).st.seen

\* C28: at every entry of sanitizeValue during a call the depth lies
\* between 0 and maxDepth and counts the objects that enclose the node
\* below the target, and the path stack holds the segments that lead from
\* the target to the node visited; with failures contained the call
\* returns, and a call that returns does so with depth 0 and an empty
\* path, also after failures were contained
C28_ContextInvariant ==
    pc # "ready"
       => /\ \A i \in 1..Len(Steps) :
                /\ 0 <= Steps[i].currentDepth
                /\ Steps[i].currentDepth <= options.maxDepth
                /\ Steps[i].path \in FieldPaths(input)
                /\ ValueAt(target, Steps[i].path, heap) = Steps[i].value
                /\ Steps[i].currentDepth = DepthAt(input, Steps[i].path)
          /\ ~ options.throwOnError => pc = "resolved"
          /\ pc = "resolved" => ctx = [currentDepth |-> 0, path |-> <<>>]

\* two failures were contained, the depth error at a.a under maxDepth 1 and
\* the function's error at b, and the call returned with a clean context
C28_Witness ==
    /\ pc = "resolved"
    /\ options.maxDepth = 1
    /\ ~ options.throwOnError
    /\ Len(log) = 2
    /\ log[1].cb = "onError" /\ log[1].field = <<"a", ".", "a">>
    /\ log[2].cb = "onError" /\ log[2].field = KeyB
    /\ Len(Steps) = 3
    /\ Steps[2].currentDepth = 1
    /\ ctx = [currentDepth |-> 0, path |-> <<>>]


-----------------------------------------------------------------------------
(* Keys that contain a dot, under entries written for nested paths *)

InitDotted ==
    \E o \in [blacklist : {<<KeyADotB>>, <<KeyA>>}]
             \cup [fields : {KeyADotB :> FieldConfig("skip", NoConfig, "undefined"),
                             KeyADotB :> FieldConfig("html", Config({"b"}), "undefined"),
                             KeyADotB :> FieldConfig("custom", NoConfig, "constant")}],
       tree \in Targets(MaxNodes, {Markup}, <<KeyA, KeyADotB, KeyB>>) :
        InitWith(MergedOptions(o @@ Observed), tree)

SpecDotted == InitDotted /\ [][Next]_vars

\* C29: distinct nodes the walker visits never have the same field-path,
\* and an entry "a.b", or a blacklist entry "a", written for what lies
\* inside the value of key a, never applies to the top-level key named
\* "a.b": that key comes out as it does with no entry at all
C29_NestingNotKeyText ==
    pc = "resolved"
       => /\ \A i, j \in 1..Len(Steps) :
                Steps[i].path # Steps[j].path
                   => Join(Steps[i].path, Dot) # Join(Steps[j].path, Dot)
          /\ Has(input, <<KeyADotB>>)
                => Get(Output, <<KeyADotB>>)
                      = Get(OutputUnder([options EXCEPT !.blacklist = <<>>,
                                                        !.fields = <<>>]).tree,
                            <<KeyADotB>>)

\* the blacklist entry "a.b" kept the markup under the top-level key "a.b"
\* as it kept the markup at b inside a, and both were reported under one path
C29_Witness ==
    /\ pc = "resolved"
    /\ options.blacklist = <<KeyADotB>>
    /\ input = Obj(<<Ent(KeyA, Obj(<<Ent(KeyB, Markup)>>)), Ent(KeyADotB, Markup)>>)
    /\ Output = input
    /\ Len(log) = 2
    /\ log[1].cb = "onSkip" /\ log[2].cb = "onSkip"
    /\ log[1].field = log[2].field


-----------------------------------------------------------------------------
(* Whitelist entries for nested paths *)

\* C30: with a non-empty whitelist every string leaf whose field-path
\* equals or extends a whitelist entry is transformed by its resolved mode
\* at any nesting level, also under an ancestor that is not in the whitelist
C30_NestedWhitelistReached ==
    (pc = "resolved" /\ options.whitelist # <<>>)
       => \A segs \in FieldPaths(input) :
             ( /\ Get(input, segs).t = "str"
               /\ Listed(Join(segs, Dot), options.whitelist)
               /\ getFieldConfig(Join(segs, Dot), options).mode # "custom" )
                => /\ Has(Output, segs)
                   /\ Get(Output, segs) = ByResolvedMode(input, segs, options)

\* C30, the part the walker keeps: the same for the leaves it reaches,
\* those with every node above them in the whitelist too
C30_ReachedWhitelistTransformed ==
    (pc = "resolved" /\ options.whitelist # <<>>)
       => \A segs \in FieldPaths(input) :
             ( /\ Get(input, segs).t = "str"
               /\ Listed(Join(segs, Dot), options.whitelist)
               /\ getFieldConfig(Join(segs, Dot), options).mode # "custom"
               /\ Visited(input, segs, options) )
                => /\ Has(Output, segs)
                   /\ Get(Output, segs) = ByResolvedMode(input, segs, options)

\* the whitelist names "a.ab" alone: the walker stopped at a, which it
\* reported as skipped, and the markup at a.ab came back as it went in
C30_Witness ==
    /\ pc = "resolved"
    /\ options.whitelist = <<KeyADotAB>>
    /\ options.fields = <<>>
    /\ input = Obj(<<Ent(KeyA, Obj(<<Ent(KeyAB, Markup)>>))>>)
    /\ Output = input
    /\ Len(log) = 1
    /\ log[1].cb = "onSkip" /\ log[1].field = KeyA

====
